---- MODULE Spec2Model ----
(***************************************************************************)
(* EmailListVerify SDK: the endpoint client (src/src/client.ts), the HTTP  *)
(* transport (src/unnamed/part_006, utils/http) and the error taxonomy     *)
(* (src/unnamed/part_007, utils/errors).                                   *)
(*                                                                         *)
(* JavaScript strings are sequences of one-character strings, so that      *)
(* trim, toLowerCase and includes are computed and not assumed.            *)
(* JavaScript values are records tagged by the field t.                    *)
(***************************************************************************)
EXTENDS Integers, Sequences, FiniteSets, TLC

\* ------------------------------------------------------------------ bounds
\* Longest run of whitespace put around a string argument.
MaxPad == 1
\* Most fragments concatenated into one server message.
MaxFrags == 2
\* Number of call slots of one client instance.
MaxCalls == 1

\* ---------------------------------------------------------------- strings
\* S_: the substrings createErrorFromResponse looks for (part_007, lines
\* 276-313) and the texts String(value) gives; MSG_: the messages of the
\* errors thrown (part_007, part_006 lines 105-110, 253, 281, client.ts
\* lines 51, 393-412).
S_credit == <<"c", "r", "e", "d", "i", "t">>
S_too_many == <<"t", "o", "o", " ", "m", "a", "n", "y">>
S_file == <<"f", "i", "l", "e">>
S_not_finished == <<"n", "o", "t", " ", "f", "i", "n", "i", "s", "h", "e", "d">>
S_email_job == <<"e", "m", "a", "i", "l", " ", "j", "o", "b">>
S_email_list == <<"e", "m", "a", "i", "l", " ", "l", "i", "s", "t">>
S_maillist == <<"m", "a", "i", "l", "l", "i", "s", "t">>
S_placement_test == <<"p", "l", "a", "c", "e", "m", "e", "n", "t", " ", "t", "e", "s", "t">>
S_required == <<"r", "e", "q", "u", "i", "r", "e", "d">>
S_null == <<"n", "u", "l", "l">>
S_true == <<"t", "r", "u", "e">>
S_false == <<"f", "a", "l", "s", "e">>
S_undefined == <<"u", "n", "d", "e", "f", "i", "n", "e", "d">>
S_object == <<"[", "o", "b", "j", "e", "c", "t", " ", "O", "b", "j", "e", "c", "t", "]">>
S_unknown == <<"u", "n", "k", "n", "o", "w", "n">>
MSG_ApiRequestFailed == <<"A", "P", "I", " ", "r", "e", "q", "u", "e", "s", "t", " ", "f", "a", "i", "l", "e", "d">>
MSG_EmailJobNotFound == <<"E", "m", "a", "i", "l", " ", "j", "o", "b", " ", "n", "o", "t", " ", "f", "o", "u", "n", "d">>
MSG_EmailListNotFound == <<"E", "m", "a", "i", "l", " ", "l", "i", "s", "t", " ", "n", "o", "t", " ", "f", "o", "u", "n", "d">>
MSG_PlacementTestNotFound == <<"P", "l", "a", "c", "e", "m", "e", "n", "t", " ", "t", "e", "s", "t", " ", "n", "o", "t", " ", "f", "o", "u", "n", "d">>
MSG_ColonSp == <<":", " ">>
MSG_HTTP == <<"H", "T", "T", "P", " ">>
MSG_RequestTimeoutAfter == <<"R", "e", "q", "u", "e", "s", "t", " ", "t", "i", "m", "e", "o", "u", "t", " ", "a", "f", "t", "e", "r", " ">>
MSG_ms == <<"m", "s">>
MSG_NetworkRequestFailed == <<"N", "e", "t", "w", "o", "r", "k", " ", "r", "e", "q", "u", "e", "s", "t", " ", "f", "a", "i", "l", "e", "d", ":", " ">>
MSG_FailedToParse == <<"F", "a", "i", "l", "e", "d", " ", "t", "o", " ", "p", "a", "r", "s", "e", " ", "r", "e", "s", "p", "o", "n", "s", "e", ":", " ">>
MSG_UnknownError == <<"U", "n", "k", "n", "o", "w", "n", " ", "e", "r", "r", "o", "r">>
MSG_isRequired == <<" ", "i", "s", " ", "r", "e", "q", "u", "i", "r", "e", "d">>
MSG_ApiKeyRequired == <<"A", "P", "I", " ", "k", "e", "y", " ", "i", "s", " ", "r", "e", "q", "u", "i", "r", "e", "d">>
MSG_EmailRequired == <<"E", "m", "a", "i", "l", " ", "i", "s", " ", "r", "e", "q", "u", "i", "r", "e", "d">>
MSG_EmailEmpty == <<"E", "m", "a", "i", "l", " ", "c", "a", "n", "n", "o", "t", " ", "b", "e", " ", "e", "m", "p", "t", "y">>
MSG_EmailInvalid == <<"I", "n", "v", "a", "l", "i", "d", " ", "e", "m", "a", "i", "l", " ", "f", "o", "r", "m", "a", "t">>

\* Server wordings used as message fragments.
F_Credit == <<"N", "o", "t", " ", "e", "n", "o", "u", "g", "h", " ", "C", "r", "e", "d", "i", "t", "s">>
F_TooMany == <<"T", "o", "o", " ", "M", "a", "n", "y", " ", "r", "u", "n", "n", "i", "n", "g", " ", "j", "o", "b", "s">>
F_File == <<"I", "n", "v", "a", "l", "i", "d", " ", "F", "I", "L", "E", " ", "f", "o", "r", "m", "a", "t">>
F_NotFinished == <<"M", "a", "i", "l", "l", "i", "s", "t", " ", "h", "a", "s", " ", "N", "o", "t", " ", "F", "i", "n", "i", "s", "h", "e", "d", " ", "y", "e", "t">>
F_EmailJob == <<"E", "m", "a", "i", "l", " ", "J", "o", "b", " ", "m", "i", "s", "s", "i", "n", "g">>
F_PlacementX == <<"P", "l", "a", "c", "e", "m", "e", "n", "t", " ", "t", "e", "s", "t", " ", "n", "o", "t", " ", "f", "o", "u", "n", "d", ":", " ", "E", "L", "V", "-", "X">>
F_Plain == <<"D", "e", "n", "i", "e", "d">>
F_Unauthorized == <<"U", "n", "a", "u", "t", "h", "o", "r", "i", "z", "e", "d">>
F_Required == <<" ", "2", "5", " ", "r", "e", "q", "u", "i", "r", "e", "d">>
F_NearMiss == <<"c", "r", "e", "d", " ", "i", "t", " ", "t", "o", "o", " ", " ", "m", "a", "n", "y", " ", "f", "i", " ", "l", "e">>

UpperCase == <<"A", "B", "C", "D", "E", "F", "G", "H", "I", "J", "K", "L", "M", "N", "O", "P", "Q", "R", "S", "T", "U", "V", "W", "X", "Y", "Z">>
LowerCase == <<"a", "b", "c", "d", "e", "f", "g", "h", "i", "j", "k", "l", "m", "n", "o", "p", "q", "r", "s", "t", "u", "v", "w", "x", "y", "z">>
DigitChars == <<"0", "1", "2", "3", "4", "5", "6", "7", "8", "9">>
WhiteSpace == {" ", "\t", "\n"}

\* String.prototype.toLowerCase, one character.
LowerChar(ch) ==
  IF \E i \in 1..Len(UpperCase) : UpperCase[i] = ch
  THEN LowerCase[CHOOSE i \in 1..Len(UpperCase) : UpperCase[i] = ch]
  ELSE ch

\* String.prototype.toLowerCase.
ToLowerCase(s) == [i \in 1..Len(s) |-> LowerChar(s[i])]

\* String.prototype.includes: sub occurs in s as a contiguous run.
Includes(s, sub) ==
  \E i \in 0..(Len(s) - Len(sub)) : SubSeq(s, i + 1, i + Len(sub)) = sub

\* String.prototype.trim: strips the white space at both ends only.
Trim(s) ==
  IF \A i \in 1..Len(s) : s[i] \in WhiteSpace
  THEN << >>
  ELSE LET first == CHOOSE i \in 1..Len(s) :
                      /\ s[i] \notin WhiteSpace
                      /\ \A j \in 1..(i - 1) : s[j] \in WhiteSpace
           last == CHOOSE i \in 1..Len(s) :
                     /\ s[i] \notin WhiteSpace
                     /\ \A j \in (i + 1)..Len(s) : s[j] \in WhiteSpace
       IN SubSeq(s, first, last)

IsDigit(ch) == \E i \in 1..10 : DigitChars[i] = ch

DigitValue(ch) == (CHOOSE i \in 1..10 : DigitChars[i] = ch) - 1

\* String(n) for an integer n >= 0.
RECURSIVE DigitsOf(_)
DigitsOf(n) ==
  IF n < 10 THEN <<DigitChars[n + 1]>>
  ELSE DigitsOf(n \div 10) \o <<DigitChars[(n % 10) + 1]>>

\* parseInt(s, 10) for a string of decimal digits.
RECURSIVE ParseInt(_)
ParseInt(s) ==
  IF Len(s) = 0 THEN 0
  ELSE 10 * ParseInt(SubSeq(s, 1, Len(s) - 1)) + DigitValue(s[Len(s)])

\* ------------------------------------------------------ JavaScript values
Undefined == [t |-> "undefined"]
Null == [t |-> "null"]
Num(n) == [t |-> "num", n |-> n]
Bool(b) == [t |-> "bool", b |-> b]
\* A string given by its characters.
Str(s) == [t |-> "str", s |-> s]
\* The string that is the JSON text of the object, array or string v.
JsonText(v) == [t |-> "str", json |-> v]
\* An object given by its own properties.
Obj(props) == [t |-> "obj", props |-> props]
Arr(items) == [t |-> "arr", items |-> items]
\* Binary payloads: Blob, Buffer and FormData instances.
BlobOf(id) == [t |-> "blob", id |-> id]
BufferOf(id) == [t |-> "buffer", id |-> id]

IsStr(v) == v.t = "str"
IsCharStr(v) == v.t = "str" /\ "s" \in DOMAIN v

\* typeof v.
TypeOf(v) ==
  CASE v.t = "undefined" -> "undefined"
    [] v.t = "num" -> "number"
    [] v.t = "bool" -> "boolean"
    [] v.t = "str" -> "string"
    [] OTHER -> "object"

\* ToBoolean(v): what `!v` and `v || d` test.
Truthy(v) ==
  CASE v.t = "undefined" -> FALSE
    [] v.t = "null" -> FALSE
    [] v.t = "num" -> v.n # 0
    [] v.t = "bool" -> v.b
    [] v.t = "str" -> IF "s" \in DOMAIN v THEN Len(v.s) > 0 ELSE TRUE
    [] OTHER -> TRUE

\* Property read o.name on a non-nullish value (undefined when absent).
GetProp(o, name) ==
  IF o.t = "obj" /\ name \in DOMAIN o.props THEN o.props[name] ELSE Undefined

\* String(v), the characters of v converted to a string; an array is its
\* items joined by commas.
RECURSIVE ToChars(_)
ToChars(v) ==
  CASE v.t = "undefined" -> S_undefined
    [] v.t = "null" -> S_null
    [] v.t = "num" -> DigitsOf(v.n)
    [] v.t = "bool" -> IF v.b THEN S_true ELSE S_false
    [] v.t = "str" -> IF "s" \in DOMAIN v THEN v.s ELSE <<"{", "}">>
    [] v.t = "arr" ->
         IF Len(v.items) = 0 THEN << >>
         ELSE IF Len(v.items) = 1 THEN ToChars(v.items[1])
         ELSE ToChars(v.items[1]) \o <<",">> \o ToChars(Arr(Tail(v.items)))
    [] OTHER -> S_object

\* JSON.parse(text): [ok, value]. A text of characters is JSON only when it
\* is a literal (null, true, false) or a run of digits; the JSON texts of
\* objects, arrays and strings are JsonText values.
JsonParse(text) ==
  IF "json" \in DOMAIN text THEN [ok |-> TRUE, value |-> text.json]
  ELSE LET s == Trim(text.s) IN
    CASE s = S_null -> [ok |-> TRUE, value |-> Null]
      [] s = S_true -> [ok |-> TRUE, value |-> Bool(TRUE)]
      [] s = S_false -> [ok |-> TRUE, value |-> Bool(FALSE)]
      [] Len(s) > 0 /\ (\A i \in 1..Len(s) : IsDigit(s[i])) /\ (Len(s) = 1 \/ s[1] # "0")
           -> [ok |-> TRUE, value |-> Num(ParseInt(s))]
      [] OTHER -> [ok |-> FALSE, value |-> Undefined]

\* ---------------------------------------------------------- error taxonomy
\* What every Error object carries: the classes it is an instance of, its
\* name and message, and the fields of EmailListVerifyError and subclasses.
MkError(classes, name, message, statusCode, code, response, cause) ==
  [classes |-> classes, name |-> name, message |-> message,
   statusCode |-> statusCode, code |-> code, response |-> response,
   cause |-> cause, field |-> Undefined, resourceType |-> Undefined,
   resourceId |-> Undefined, creditsRequired |-> Undefined,
   retryAfter |-> Undefined]

\* new EmailListVerifyError(message, statusCode, code, response, cause);
\* super(message) stores String(message).
EmailListVerifyError(message, statusCode, code, response, cause) ==
  MkError({"Error", "EmailListVerifyError"}, "EmailListVerifyError",
          ToChars(message), statusCode, code, response, cause)

\* A subclass instance: the base fields, one more class, its own name.
Subclass(base, class) ==
  [base EXCEPT !.classes = @ \cup {class}, !.name = class]

AuthenticationError(message, response) ==
  Subclass(EmailListVerifyError(message, Num(401), "AUTH_ERROR", response, Undefined),
           "AuthenticationError")

ForbiddenError(message, response) ==
  Subclass(EmailListVerifyError(message, Num(403), "FORBIDDEN", response, Undefined),
           "ForbiddenError")

InsufficientCreditsError(message, creditsRequired, response) ==
  [Subclass(EmailListVerifyError(message, Num(403), "INSUFFICIENT_CREDITS", response, Undefined),
            "InsufficientCreditsError")
     EXCEPT !.creditsRequired = creditsRequired]

TooManyJobsError(message, response) ==
  Subclass(EmailListVerifyError(message, Num(403), "TOO_MANY_JOBS", response, Undefined),
           "TooManyJobsError")

NotFoundError(message, resourceType, resourceId, response) ==
  [Subclass(EmailListVerifyError(message, Num(404), "NOT_FOUND", response, Undefined),
            "NotFoundError")
     EXCEPT !.resourceType = resourceType, !.resourceId = resourceId]

EmailJobNotFoundError(jobId, response) ==
  Subclass(NotFoundError(Str(MSG_EmailJobNotFound), Str(<<"E", "m", "a", "i", "l", "J", "o", "b">>), jobId, response),
           "EmailJobNotFoundError")

MaillistNotFoundError(listId, response) ==
  Subclass(NotFoundError(Str(MSG_EmailListNotFound), Str(<<"M", "a", "i", "l", "l", "i", "s", "t">>), listId, response),
           "MaillistNotFoundError")

PlacementTestNotFoundError(code, response) ==
  Subclass(NotFoundError(IF Truthy(code)
                           THEN Str(MSG_PlacementTestNotFound \o MSG_ColonSp \o ToChars(code))
                           ELSE Str(MSG_PlacementTestNotFound),
                         Str(<<"P", "l", "a", "c", "e", "m", "e", "n", "t", "T", "e", "s", "t">>),
                         code, response),
           "PlacementTestNotFoundError")

BadRequestError(message, response) ==
  Subclass(EmailListVerifyError(message, Num(400), "BAD_REQUEST", response, Undefined),
           "BadRequestError")

InvalidFileError(message, response) ==
  Subclass(EmailListVerifyError(message, Num(400), "INVALID_FILE", response, Undefined),
           "InvalidFileError")

MaillistNotFinishedError(message, response) ==
  Subclass(EmailListVerifyError(message, Num(400), "MAILLIST_NOT_FINISHED", response, Undefined),
           "MaillistNotFinishedError")

RateLimitError(message, retryAfter, response) ==
  [Subclass(EmailListVerifyError(message, Num(429), "RATE_LIMIT", response, Undefined),
            "RateLimitError")
     EXCEPT !.retryAfter = retryAfter]

NetworkError(message, cause) ==
  Subclass(EmailListVerifyError(message, Undefined, "NETWORK_ERROR", Undefined, cause),
           "NetworkError")

\* TimeoutError carrying the status 408.
TimeoutError_Status408(message, cause) ==
  Subclass(EmailListVerifyError(message, Num(408), "TIMEOUT", Undefined, cause),
           "TimeoutError")

TimeoutError(message, cause) ==
  Subclass(EmailListVerifyError(message, Undefined, "TIMEOUT", Undefined, cause),
           "TimeoutError")

ValidationError(message, field) ==
  [Subclass(EmailListVerifyError(message, Undefined, "VALIDATION_ERROR", Undefined, Undefined),
            "ValidationError")
     EXCEPT !.field = field]

ParseError(message, cause) ==
  Subclass(EmailListVerifyError(message, Undefined, "PARSE_ERROR", Undefined, cause),
           "ParseError")

\* Errors of the platform, outside the taxonomy.
RawError(class, name, message) ==
  MkError({"Error"} \cup {class}, name, message, Undefined, "undefined",
          Undefined, Undefined)

\* new TypeError(message).
TypeErrorOf(message) == RawError("TypeError", "TypeError", message)

\* error instanceof C.
InstanceOf(e, class) == class \in e.classes

\* isEmailListVerifyError(error).
isEmailListVerifyError(e) == InstanceOf(e, "EmailListVerifyError")

\* message.match(/(\d+)\s+required/): the digits of the leftmost match, as
\* [found, digits].
DigitRunEnd(s, i) ==
  CHOOSE q \in i..Len(s) :
    /\ \A k \in i..q : IsDigit(s[k])
    /\ (q = Len(s) \/ ~IsDigit(s[q + 1]))

SpaceRunEnd(s, i) ==
  CHOOSE q \in i..Len(s) :
    /\ \A k \in i..q : s[k] \in WhiteSpace
    /\ (q = Len(s) \/ s[q + 1] \notin WhiteSpace)

RequiredMatchAt(s, i) ==
  /\ IsDigit(s[i])
  /\ LET q == DigitRunEnd(s, i) IN
       /\ q < Len(s)
       /\ s[q + 1] \in WhiteSpace
       /\ LET w == SpaceRunEnd(s, q + 1) IN
            SubSeq(s, w + 1, w + Len(S_required)) = S_required

MatchRequired(s) ==
  IF \E i \in 1..Len(s) : RequiredMatchAt(s, i)
  THEN LET i == CHOOSE k \in 1..Len(s) :
                  /\ RequiredMatchAt(s, k)
                  /\ \A j \in 1..(k - 1) : ~RequiredMatchAt(s, j)
       IN [found |-> TRUE, digits |-> SubSeq(s, i, DigitRunEnd(s, i))]
  ELSE [found |-> FALSE, digits |-> << >>]

\* The first part of createErrorFromResponse: apiResponse and message as
\* they stand when the switch is reached.
ExtractMessage(responseBody, defaultMessage) ==
  IF TypeOf(responseBody) = "object" /\ responseBody # Null
  THEN [apiResponse |-> responseBody,
        message |-> IF Truthy(GetProp(responseBody, "message"))
                    THEN GetProp(responseBody, "message") ELSE defaultMessage]
  ELSE IF TypeOf(responseBody) = "string"
  THEN LET parsed == JsonParse(responseBody) IN
       IF ~parsed.ok
       THEN \* JSON.parse threw before the assignment
            [apiResponse |-> Undefined,
             message |-> IF Truthy(responseBody) THEN responseBody ELSE defaultMessage]
       ELSE IF parsed.value = Null
       THEN \* apiResponse.message threw on null, after the assignment
            [apiResponse |-> Null,
             message |-> IF Truthy(responseBody) THEN responseBody ELSE defaultMessage]
       ELSE [apiResponse |-> parsed.value,
             message |-> IF Truthy(GetProp(parsed.value, "message"))
                         THEN GetProp(parsed.value, "message") ELSE defaultMessage]
  ELSE [apiResponse |-> Undefined, message |-> defaultMessage]

\* What a function call ends with: a returned value or a thrown one.
Return(v) == [threw |-> FALSE, value |-> v]
Throw(e) == [threw |-> TRUE, value |-> e]

\* No result yet.
Pending == [pending |-> TRUE]

\* message.toLowerCase is not a function.
NotAFunction == TypeErrorOf(<<"n", "o", "t", " ", "a", " ", "f", "u", "n", "c", "t", "i", "o", "n">>)

\* Case400 with the two heuristics tried in the other order.
Case400_NotFinishedFirst(message, apiResponse) ==
  IF ~IsCharStr(message) THEN Throw(NotAFunction)
  ELSE IF Includes(ToLowerCase(message.s), S_not_finished)
  THEN Return(MaillistNotFinishedError(message, apiResponse))
  ELSE IF Includes(ToLowerCase(message.s), S_file)
  THEN Return(InvalidFileError(message, apiResponse))
  ELSE Return(BadRequestError(message, apiResponse))

\* case 400 of createErrorFromResponse. message.toLowerCase() is called
\* first: a message that is not a string makes the call throw a TypeError.
Case400(message, apiResponse) ==
  IF ~IsCharStr(message) THEN Throw(NotAFunction)
  ELSE IF Includes(ToLowerCase(message.s), S_file)
  THEN Return(InvalidFileError(message, apiResponse))
  ELSE IF Includes(ToLowerCase(message.s), S_not_finished)
  THEN Return(MaillistNotFinishedError(message, apiResponse))
  ELSE Return(BadRequestError(message, apiResponse))

\* Case403 with the two heuristics tried in the other order.
Case403_TooManyFirst(message, apiResponse) ==
  IF ~IsCharStr(message) THEN Throw(NotAFunction)
  ELSE IF Includes(ToLowerCase(message.s), S_too_many)
  THEN Return(TooManyJobsError(message, apiResponse))
  ELSE IF Includes(ToLowerCase(message.s), S_credit)
  THEN Return(InsufficientCreditsError(message, Undefined, apiResponse))
  ELSE Return(ForbiddenError(message, apiResponse))

\* case 403 of createErrorFromResponse.
Case403(message, apiResponse) ==
  IF ~IsCharStr(message) THEN Throw(NotAFunction)
  ELSE IF Includes(ToLowerCase(message.s), S_credit)
  THEN LET match == MatchRequired(message.s)
           creditsRequired == IF match.found THEN Num(ParseInt(match.digits))
                              ELSE Undefined
       IN Return(InsufficientCreditsError(message, creditsRequired, apiResponse))
  ELSE IF Includes(ToLowerCase(message.s), S_too_many)
  THEN Return(TooManyJobsError(message, apiResponse))
  ELSE Return(ForbiddenError(message, apiResponse))

\* case 404 of createErrorFromResponse.
Case404(message, apiResponse) ==
  IF ~IsCharStr(message) THEN Throw(NotAFunction)
  ELSE IF Includes(ToLowerCase(message.s), S_email_job)
  THEN Return(EmailJobNotFoundError(Str(S_unknown), apiResponse))
  ELSE IF \/ Includes(ToLowerCase(message.s), S_email_list)
          \/ Includes(ToLowerCase(message.s), S_maillist)
  THEN Return(MaillistNotFoundError(Str(S_unknown), apiResponse))
  ELSE IF Includes(ToLowerCase(message.s), S_placement_test)
  THEN Return(PlacementTestNotFoundError(Undefined, apiResponse))
  ELSE Return(NotFoundError(message, Undefined, Undefined, apiResponse))

\* The switch of createErrorFromResponse.
\* StatusSwitch whose fallback reports every unrecognised status as 500.
StatusSwitch_FallbackAs500(statusCode, message, apiResponse) ==
  CASE statusCode = 400 -> Case400(message, apiResponse)
    [] statusCode = 401 -> Return(AuthenticationError(message, apiResponse))
    [] statusCode = 403 -> Case403(message, apiResponse)
    [] statusCode = 404 -> Case404(message, apiResponse)
    [] statusCode = 429 -> Return(RateLimitError(message, Undefined, apiResponse))
    [] OTHER -> Return(EmailListVerifyError(message, Num(500), "API_ERROR",
                                            apiResponse, Undefined))

StatusSwitch(statusCode, message, apiResponse) ==
  CASE statusCode = 400 -> Case400(message, apiResponse)
    [] statusCode = 401 -> Return(AuthenticationError(message, apiResponse))
    [] statusCode = 403 -> Case403(message, apiResponse)
    [] statusCode = 404 -> Case404(message, apiResponse)
    [] statusCode = 429 -> Return(RateLimitError(message, Undefined, apiResponse))
    [] OTHER -> Return(EmailListVerifyError(message, Num(statusCode), "API_ERROR",
                                            apiResponse, Undefined))

\* createErrorFromResponse(statusCode, responseBody, defaultMessage).
createErrorFromResponse(statusCode, responseBody, defaultMessage) ==
  LET x == ExtractMessage(responseBody, defaultMessage)
  IN StatusSwitch(statusCode, x.message, x.apiResponse)

\* ------------------------------------------------------- endpoint client
\* N_: parameter names, P_: paths of the endpoints (client.ts, lines
\* 87-382; N_code and P_placementTests belong to the placement test
\* operations, which the documentation describes); U_, CT_, K_, E_, ID_, D_,
\* FN_, T_: sample arguments and response texts; M_: messages of the
\* errors the runtime throws (fetch, new URL, JSON.stringify, body reads);
\* ST_: status texts.
N_apiKey == <<"a", "p", "i", "K", "e", "y">>
N_email == <<"e", "m", "a", "i", "l">>
N_jobId == <<"j", "o", "b", "I", "d">>
N_domain == <<"d", "o", "m", "a", "i", "n">>
N_file == <<"f", "i", "l", "e">>
N_filename == <<"f", "i", "l", "e", "n", "a", "m", "e">>
N_fileId == <<"f", "i", "l", "e", "I", "d">>
N_code == <<"c", "o", "d", "e">>
P_verifyEmail == <<"/", "a", "p", "i", "/", "v", "e", "r", "i", "f", "y", "E", "m", "a", "i", "l">>
P_verifyEmailDetailed == <<"/", "a", "p", "i", "/", "v", "e", "r", "i", "f", "y", "E", "m", "a", "i", "l", "D", "e", "t", "a", "i", "l", "e", "d">>
P_emailJobs == <<"/", "a", "p", "i", "/", "e", "m", "a", "i", "l", "J", "o", "b", "s">>
P_findContact == <<"/", "a", "p", "i", "/", "f", "i", "n", "d", "C", "o", "n", "t", "a", "c", "t">>
P_checkDisposable == <<"/", "a", "p", "i", "/", "c", "h", "e", "c", "k", "D", "i", "s", "p", "o", "s", "a", "b", "l", "e">>
P_verifyApiFile == <<"/", "a", "p", "i", "/", "v", "e", "r", "i", "f", "y", "A", "p", "i", "F", "i", "l", "e">>
P_maillists == <<"/", "a", "p", "i", "/", "m", "a", "i", "l", "l", "i", "s", "t", "s">>
P_progress == <<"/", "p", "r", "o", "g", "r", "e", "s", "s">>
P_credits == <<"/", "a", "p", "i", "/", "c", "r", "e", "d", "i", "t", "s">>
P_placementTests == <<"/", "a", "p", "i", "/", "p", "l", "a", "c", "e", "m", "e", "n", "t", "T", "e", "s", "t", "s">>
P_slash == <<"/">>
DEFAULT_BASE_URL == <<"h", "t", "t", "p", "s", ":", "/", "/", "a", "p", "i", ".", "e", "m", "a", "i", "l", "l", "i", "s", "t", "v", "e", "r", "i", "f", "y", ".", "c", "o", "m">>
U_https == <<"h", "t", "t", "p", "s", ":", "/", "/">>
U_http == <<"h", "t", "t", "p", ":", "/", "/">>
U_httpPrefix == <<"h", "t", "t", "p">>
U_noScheme == <<"c", "u", "s", "t", "o", "m", ".", "a", "p", "i", ".", "c", "o", "m">>
CT_json == <<"a", "p", "p", "l", "i", "c", "a", "t", "i", "o", "n", "/", "j", "s", "o", "n">>
CT_jsonUtf8 == <<"a", "p", "p", "l", "i", "c", "a", "t", "i", "o", "n", "/", "j", "s", "o", "n", ";", " ", "c", "h", "a", "r", "s", "e", "t", "=", "u", "t", "f", "-", "8">>
CT_plain == <<"t", "e", "x", "t", "/", "p", "l", "a", "i", "n">>
CT_html == <<"t", "e", "x", "t", "/", "h", "t", "m", "l">>
K_secret == <<"s", "e", "c", "r", "e", "t">>
K_key == <<"k", "e", "y", "-", "1">>
K_keySp == <<"m", "y", " ", "k", "e", "y">>
E_ab == <<"a", "@", "b">>
E_full == <<"a", "@", "b", ".", "c", "o">>
E_noAt == <<"a", "b", "c">>
E_short == <<"a", "@">>
ID_j1 == <<"j", "1">>
D_example == <<"e", "x", "a", "m", "p", "l", "e", ".", "c", "o", "m">>
FN_csv == <<"e", "m", "a", "i", "l", "s", ".", "c", "s", "v">>
T_ok == <<"o", "k">>
T_csvRow == <<"a", "@", "b", ".", "c", "o", ",", "o", "k">>
M_fetchFailed == <<"f", "e", "t", "c", "h", " ", "f", "a", "i", "l", "e", "d">>
M_aborted == <<"T", "h", "i", "s", " ", "o", "p", "e", "r", "a", "t", "i", "o", "n", " ", "w", "a", "s", " ", "a", "b", "o", "r", "t", "e", "d">>
M_terminated == <<"t", "e", "r", "m", "i", "n", "a", "t", "e", "d">>
M_unexpectedToken == <<"U", "n", "e", "x", "p", "e", "c", "t", "e", "d", " ", "t", "o", "k", "e", "n">>
M_invalidUrl == <<"I", "n", "v", "a", "l", "i", "d", " ", "U", "R", "L">>
M_bigint == <<"D", "o", " ", "n", "o", "t", " ", "k", "n", "o", "w", " ", "h", "o", "w", " ", "t", "o", " ", "s", "e", "r", "i", "a", "l", "i", "z", "e", " ", "a", " ", "B", "i", "g", "I", "n", "t">>
M_connReset == <<"s", "o", "c", "k", "e", "t", " ", "h", "a", "n", "g", " ", "u", "p">>
ST_NotFound == <<"N", "o", "t", " ", "F", "o", "u", "n", "d">>
ST_OK == <<"O", "K">>

\* const DEFAULT_TIMEOUT = 30000.
DEFAULT_TIMEOUT == 30000

\* buildUserAgent(): `emaillistverify-sdk-js/${VERSION} (${runtime})`.
buildUserAgent == "emaillistverify-sdk-js/VERSION (runtime)"

\* { ...a, ...b }: the properties of both, those of b winning.
Spread(a, b) ==
  [k \in DOMAIN a \cup DOMAIN b |-> IF k \in DOMAIN b THEN b[k] ELSE a[k]]

\* The constructor of EmailListVerifyClient: the HttpClientConfig it
\* builds, or the ValidationError it throws. options is
\* [baseUrl, timeout, headers], undefined where the caller gave nothing.
\* The constructor storing the credential as given, untrimmed.
Constructor_StoresAsGiven(apiKey, options) ==
  IF ~Truthy(apiKey) \/ TypeOf(apiKey) # "string" \/ Trim(apiKey.s) = << >>
  THEN Throw(ValidationError(Str(MSG_ApiKeyRequired), Str(N_apiKey)))
  ELSE Return([apiKey |-> apiKey,
               baseUrl |-> IF Truthy(options.baseUrl) THEN options.baseUrl
                           ELSE Str(DEFAULT_BASE_URL),
               timeout |-> IF Truthy(options.timeout) THEN options.timeout
                           ELSE Num(DEFAULT_TIMEOUT),
               headers |-> Spread([h \in {"User-Agent"} |-> buildUserAgent],
                                  options.headers)])

Constructor(apiKey, options) ==
  IF ~Truthy(apiKey) \/ TypeOf(apiKey) # "string" \/ Trim(apiKey.s) = << >>
  THEN Throw(ValidationError(Str(MSG_ApiKeyRequired), Str(N_apiKey)))
  ELSE Return([apiKey |-> Str(Trim(apiKey.s)),
               baseUrl |-> IF Truthy(options.baseUrl) THEN options.baseUrl
                           ELSE Str(DEFAULT_BASE_URL),
               timeout |-> IF Truthy(options.timeout) THEN options.timeout
                           ELSE Num(DEFAULT_TIMEOUT),
               headers |-> Spread([h \in {"User-Agent"} |-> buildUserAgent],
                                  options.headers)])

\* validateEmail measuring the length before trimming.
validateEmail_LengthUntrimmed(email) ==
  IF ~Truthy(email) \/ TypeOf(email) # "string"
  THEN ValidationError(Str(MSG_EmailRequired), Str(N_email))
  ELSE IF Trim(email.s) = << >>
  THEN ValidationError(Str(MSG_EmailEmpty), Str(N_email))
  ELSE IF ~Includes(Trim(email.s), <<"@">>) \/ Len(email.s) < 3
  THEN ValidationError(Str(MSG_EmailInvalid), Str(N_email))
  ELSE Undefined

\* validateEmail(email): the error thrown, or Undefined.
validateEmail(email) ==
  IF ~Truthy(email) \/ TypeOf(email) # "string"
  THEN ValidationError(Str(MSG_EmailRequired), Str(N_email))
  ELSE IF Trim(email.s) = << >>
  THEN ValidationError(Str(MSG_EmailEmpty), Str(N_email))
  ELSE IF ~Includes(Trim(email.s), <<"@">>) \/ Len(Trim(email.s)) < 3
  THEN ValidationError(Str(MSG_EmailInvalid), Str(N_email))
  ELSE Undefined

\* validateRequired without the test for the empty string.
validateRequired_NullishOnly(value, fieldName) ==
  IF value = Undefined \/ value = Null
  THEN ValidationError(Str(fieldName \o MSG_isRequired), Str(fieldName))
  ELSE Undefined

\* validateRequired(value, fieldName): the error thrown, or Undefined.
validateRequired(value, fieldName) ==
  IF value = Undefined \/ value = Null \/ value = Str(<< >>)
  THEN ValidationError(Str(fieldName \o MSG_isRequired), Str(fieldName))
  ELSE Undefined

\* The arguments HttpClient.request is called with.
Descriptor(method, path, params, body) ==
  [method |-> method, path |-> path, params |-> params, body |-> body,
   timeout |-> Undefined, responseType |-> Undefined]

\* HttpClient.get(path, params).
HttpGet(path, params) == Descriptor("GET", path, params, Undefined)

\* HttpClient.post(path, body, params).
HttpPost(path, body, params) == Descriptor("POST", path, params, body)

\* HttpClient.postFormData(path, formData, params).
HttpPostFormData(path, formData, params) == Descriptor("POST", path, params, formData)

\* HttpClient.delete(path, params).
HttpDelete(path, params) == Descriptor("DELETE", path, params, Undefined)

\* A query-parameter record: a sequence of <<key, value>>, in insertion order.
NoParams == << >>

\* An endpoint method up to its transport call: the validation error it
\* throws, or the descriptor it hands to the transport.
Validated(err, descriptor) == IF err # Undefined THEN Throw(err) ELSE Return(descriptor)

verifyEmail(email) ==
  Validated(validateEmail(email),
            HttpGet(P_verifyEmail, <<<<N_email, email>>>>))

verifyEmailDetailed(email) ==
  Validated(validateEmail(email),
            HttpGet(P_verifyEmailDetailed, <<<<N_email, email>>>>))

createEmailJob(request) ==
  Validated(validateEmail(GetProp(request, "email")),
            HttpPost(P_emailJobs, request, NoParams))

getEmailJob(jobId) ==
  Validated(validateRequired(jobId, N_jobId),
            HttpGet(P_emailJobs \o P_slash \o ToChars(jobId), NoParams))

findContact(request) ==
  Validated(validateRequired(GetProp(request, "domain"), N_domain),
            HttpPost(P_findContact, request, NoParams))

\* checkDisposable sending the domain as a JSON body.
checkDisposable_DomainInBody(domain) ==
  Validated(validateRequired(domain, N_domain),
            HttpPost(P_checkDisposable, Obj([domain |-> domain]), NoParams))

checkDisposable(domain) ==
  Validated(validateRequired(domain, N_domain),
            HttpPost(P_checkDisposable, Undefined, <<<<N_domain, domain>>>>))

\* new FormData() with one append(name, value, filename).
FormDataOf(name, value, filename) ==
  [t |-> "formdata", entries |-> <<[name |-> name, value |-> value, filename |-> filename]>>]

\* uploadBulkFile appending the payload under the field name file.
uploadBulkFile_FieldNamedFile(file, filename) ==
  IF validateRequired(file, N_file) # Undefined
  THEN Throw(validateRequired(file, N_file))
  ELSE Validated(validateRequired(filename, N_filename),
                 HttpPostFormData(P_verifyApiFile,
                                  FormDataOf("file",
                                             IF file.t = "buffer" THEN BlobOf(file.id) ELSE file,
                                             filename),
                                  NoParams))

uploadBulkFile(file, filename) ==
  IF validateRequired(file, N_file) # Undefined
  THEN Throw(validateRequired(file, N_file))
  ELSE Validated(validateRequired(filename, N_filename),
                 HttpPostFormData(P_verifyApiFile,
                                  FormDataOf("file_contents",
                                             IF file.t = "buffer" THEN BlobOf(file.id) ELSE file,
                                             filename),
                                  NoParams))

getBulkProgress(fileId) ==
  Validated(validateRequired(fileId, N_fileId),
            HttpGet(P_maillists \o P_slash \o ToChars(fileId) \o P_progress, NoParams))

\* Array.prototype.join(',').
JoinComma(items) == ToChars(Arr(items))

\* FlattenOptions leaving the array values out.
RECURSIVE FlattenOptions_ArraysDropped(_)
FlattenOptions_ArraysDropped(entries) ==
  IF Len(entries) = 0 THEN << >>
  ELSE LET key == Head(entries)[1]
           value == Head(entries)[2]
       IN IF value = Undefined THEN FlattenOptions_ArraysDropped(Tail(entries))
          ELSE IF TypeOf(value) \in {"string", "number", "boolean"}
          THEN <<<<key, value>>>> \o FlattenOptions_ArraysDropped(Tail(entries))
          ELSE FlattenOptions_ArraysDropped(Tail(entries))

\* The forEach of downloadBulkResults over Object.entries(options): options
\* is a sequence of <<key, value>> in property order.
RECURSIVE FlattenOptions(_)
FlattenOptions(entries) ==
  IF Len(entries) = 0 THEN << >>
  ELSE LET key == Head(entries)[1]
           value == Head(entries)[2]
       IN IF value = Undefined THEN FlattenOptions(Tail(entries))
          ELSE IF value.t = "arr"
          THEN <<<<key, Str(JoinComma(value.items))>>>> \o FlattenOptions(Tail(entries))
          ELSE IF TypeOf(value) \in {"string", "number", "boolean"}
          THEN <<<<key, value>>>> \o FlattenOptions(Tail(entries))
          ELSE FlattenOptions(Tail(entries))

downloadBulkResults(fileId, options) ==
  Validated(validateRequired(fileId, N_fileId),
            HttpGet(P_maillists \o P_slash \o ToChars(fileId),
                    IF options = Undefined THEN NoParams
                    ELSE FlattenOptions(options.entries)))

deleteBulkList(fileId) ==
  Validated(validateRequired(fileId, N_fileId),
            HttpDelete(P_maillists \o P_slash \o ToChars(fileId), NoParams))

getCredits == Return(HttpGet(P_credits, NoParams))

\* createPlacementTest(request): no required field; the JSON body is left
\* out when no request is given.
createPlacementTest(request) ==
  Return(HttpPost(P_placementTests, request, NoParams))

\* getPlacementTest(code): the code is required.
getPlacementTest(code) ==
  Validated(validateRequired(code, N_code),
            HttpGet(P_placementTests \o P_slash \o ToChars(code), NoParams))

Operations ==
  {"verifyEmail", "verifyEmailDetailed", "createEmailJob", "getEmailJob",
   "findContact", "checkDisposable", "uploadBulkFile", "getBulkProgress",
   "downloadBulkResults", "deleteBulkList", "getCredits",
   "createPlacementTest", "getPlacementTest"}

\* The endpoint method op called with the arguments a1, a2.
Endpoint(op, a1, a2) ==
  CASE op = "verifyEmail" -> verifyEmail(a1)
    [] op = "verifyEmailDetailed" -> verifyEmailDetailed(a1)
    [] op = "createEmailJob" -> createEmailJob(a1)
    [] op = "getEmailJob" -> getEmailJob(a1)
    [] op = "findContact" -> findContact(a1)
    [] op = "checkDisposable" -> checkDisposable(a1)
    [] op = "uploadBulkFile" -> uploadBulkFile(a1, a2)
    [] op = "getBulkProgress" -> getBulkProgress(a1)
    [] op = "downloadBulkResults" -> downloadBulkResults(a1, a2)
    [] op = "deleteBulkList" -> deleteBulkList(a1)
    [] op = "getCredits" -> getCredits
    [] op = "createPlacementTest" -> createPlacementTest(a1)
    [] op = "getPlacementTest" -> getPlacementTest(a1)

\* What the endpoint method returns from the transport's envelope:
\* response.data, and nothing for deleteBulkList.
EndpointResult(op, envelope) ==
  IF op = "deleteBulkList" THEN Undefined ELSE envelope.data

\* -------------------------------------------------------------- transport
HasPrefix(s, prefix) == Len(s) >= Len(prefix) /\ SubSeq(s, 1, Len(prefix)) = prefix

\* new URL(href) accepts href: it has a scheme and a host.
IsAbsoluteUrl(href) ==
  \/ HasPrefix(href, U_https) /\ Len(href) > Len(U_https) /\ href[Len(U_https) + 1] # "/"
  \/ HasPrefix(href, U_http) /\ Len(href) > Len(U_http) /\ href[Len(U_http) + 1] # "/"

\* The parameters buildUrl appends after `secret`: those that are neither
\* undefined nor null, each value through String().
RECURSIVE AppendParams(_)
AppendParams(params) ==
  IF Len(params) = 0 THEN << >>
  ELSE LET key == Head(params)[1]
           value == Head(params)[2]
       IN IF value # Undefined /\ value # Null
          THEN <<<<key, ToChars(value)>>>> \o AppendParams(Tail(params))
          ELSE AppendParams(Tail(params))

\* The pieces of s between the occurrences of the character ch.
RECURSIVE SplitOn(_, _)
SplitOn(s, ch) ==
  IF \A i \in 1..Len(s) : s[i] # ch THEN <<s>>
  ELSE LET i == CHOOSE k \in 1..Len(s) : s[k] = ch /\ \A j \in 1..(k - 1) : s[j] # ch
       IN <<SubSeq(s, 1, i - 1)>> \o SplitOn(SubSeq(s, i + 1, Len(s)), ch)

\* The name-value pairs of the pieces of a query: each piece is split at
\* its first '='; empty pieces give nothing.
RECURSIVE PairsOf(_)
PairsOf(pieces) ==
  IF Len(pieces) = 0 THEN << >>
  ELSE LET piece == Head(pieces)
           kv == SplitOn(piece, "=")
       IN IF Len(piece) = 0 THEN PairsOf(Tail(pieces))
          ELSE <<<<kv[1], SubSeq(piece, Len(kv[1]) + 2, Len(piece))>>>>
                 \o PairsOf(Tail(pieces))

\* url.searchParams of new URL(href): the pairs of what follows the first
\* '?' (the strings used here carry no '+', '%' or '#').
ParseQuery(href) ==
  LET head == SplitOn(href, "?")[1]
  IN IF Len(head) = Len(href) THEN << >>
     ELSE PairsOf(SplitOn(SubSeq(href, Len(head) + 2, Len(href)), "&"))

\* The ASCII characters of codes 32 to 95, and those of codes 123 to 126.
AsciiPrintable ==
  <<" ", "!", "\"", "#", "$", "%", "&", "'", "(", ")", "*", "+", ",", "-", ".", "/",
    "0", "1", "2", "3", "4", "5", "6", "7", "8", "9", ":", ";", "<", "=", ">", "?",
    "@", "A", "B", "C", "D", "E", "F", "G", "H", "I", "J", "K", "L", "M", "N", "O",
    "P", "Q", "R", "S", "T", "U", "V", "W", "X", "Y", "Z", "[", "\\", "]", "^", "_">>

AsciiBraces == <<"{", "|", "}", "~">>

HexDigits ==
  <<"0", "1", "2", "3", "4", "5", "6", "7", "8", "9", "A", "B", "C", "D", "E", "F">>

\* The code of a character that the serialiser escapes.
CharCode(ch) ==
  IF ch = "\t" THEN 9
  ELSE IF ch = "\n" THEN 10
  ELSE IF \E i \in 1..Len(AsciiBraces) : AsciiBraces[i] = ch
  THEN 122 + CHOOSE i \in 1..Len(AsciiBraces) : AsciiBraces[i] = ch
  ELSE 31 + CHOOSE i \in 1..Len(AsciiPrintable) : AsciiPrintable[i] = ch

\* The application/x-www-form-urlencoded serialiser on one character:
\* letters, digits and * - . _ stay, the space becomes '+', any other
\* character its percent-encoded code.
EncodeChar(ch) ==
  IF \/ IsDigit(ch)
     \/ \E i \in 1..Len(LowerCase) : ch = LowerCase[i] \/ ch = UpperCase[i]
     \/ ch \in {"*", "-", ".", "_"}
  THEN <<ch>>
  ELSE IF ch = " " THEN <<"+">>
  ELSE <<"%", HexDigits[(CharCode(ch) \div 16) + 1], HexDigits[(CharCode(ch) % 16) + 1]>>

RECURSIVE FormEncode(_)
FormEncode(s) ==
  IF Len(s) = 0 THEN << >> ELSE EncodeChar(Head(s)) \o FormEncode(Tail(s))

\* url.search after the appends: name=value joined by '&', behind a '?'.
RECURSIVE JoinPairs(_)
JoinPairs(pairs) ==
  IF Len(pairs) = 0 THEN << >>
  ELSE FormEncode(Head(pairs)[1]) \o <<"=">> \o FormEncode(Head(pairs)[2])
       \o (IF Len(pairs) = 1 THEN << >> ELSE <<"&">> \o JoinPairs(Tail(pairs)))

\* HttpClient.buildUrl(path, params): the URL as [href, searchParams,
\* text], or the TypeError of new URL. href is the URL up to its query,
\* searchParams the decoded pairs in order, text what url.toString() gives.
buildUrl(config, path, params) ==
  LET full == IF HasPrefix(path, U_httpPrefix) THEN path
              ELSE ToChars(config.baseUrl) \o path
      href == SplitOn(full, "?")[1]
      searchParams == ParseQuery(full)
                        \o <<<<K_secret, ToChars(config.apiKey)>>>>
                        \o AppendParams(params)
  IN IF ~IsAbsoluteUrl(full) THEN Throw(TypeErrorOf(M_invalidUrl))
     ELSE Return([href |-> href,
                  searchParams |-> searchParams,
                  text |-> href \o <<"?">> \o JoinPairs(searchParams)])

\* HttpClient.buildHeaders(customHeaders, body).
buildHeaders(config, customHeaders, body) ==
  IF Truthy(body) /\ body.t # "formdata"
  THEN Spread(Spread(config.headers, customHeaders),
              [h \in {"Content-Type"} |-> "application/json"])
  ELSE Spread(config.headers, customHeaders)

\* JSON.stringify(v) throws on a BigInt.
RECURSIVE Serialisable(_)
Serialisable(v) ==
  CASE v.t = "bigint" -> FALSE
    [] v.t = "obj" -> \A k \in DOMAIN v.props : Serialisable(v.props[k])
    [] v.t = "arr" -> \A i \in 1..Len(v.items) : Serialisable(v.items[i])
    [] OTHER -> TRUE

\* JSON.stringify leaves out the properties whose value is undefined.
DropUndefined(v) ==
  IF v.t = "obj"
  THEN Obj([k \in {x \in DOMAIN v.props : v.props[x] # Undefined} |-> v.props[k]])
  ELSE v

\* HttpClient.buildBody(body): the payload, or the TypeError of
\* JSON.stringify.
buildBody(body) ==
  IF ~Truthy(body) THEN Return(Undefined)
  ELSE IF body.t = "formdata" THEN Return(body)
  ELSE IF ~Serialisable(body) THEN Throw(TypeErrorOf(M_bigint))
  ELSE Return(JsonText(DropUndefined(body)))

\* The catch block with the TypeError test ahead of, and in place of, the
\* AbortError test: every Error is taken for a network failure.
RequestCatch_AbortAsNetwork(error, timeout) ==
  IF InstanceOf(error, "Error") /\ ~isEmailListVerifyError(error)
  THEN NetworkError(Str(MSG_NetworkRequestFailed \o error.message), error)
  ELSE error

\* The catch block of HttpClient.request: what request() rejects with when
\* `error` was thrown inside its try block.
RequestCatch(error, timeout) ==
  IF InstanceOf(error, "Error") /\ error.name = "AbortError"
  THEN TimeoutError(Str(MSG_RequestTimeoutAfter \o ToChars(timeout) \o MSG_ms), error)
  ELSE IF InstanceOf(error, "TypeError")
  THEN NetworkError(Str(MSG_NetworkRequestFailed \o error.message), error)
  ELSE error

\* The decoder parseResponse awaits: response.json(), text() or blob().
ChooseDecoder(contentType, expectedType) ==
  IF expectedType = Str(<<"t", "e", "x", "t">>) THEN "text"
  ELSE IF expectedType = Str(<<"b", "l", "o", "b">>) THEN "blob"
  ELSE IF expectedType = Str(<<"j", "s", "o", "n">>) THEN "json"
  ELSE IF Includes(contentType, CT_json) THEN "json"
  ELSE IF Includes(contentType, CT_html) \/ Includes(contentType, CT_plain) THEN "text"
  ELSE "text"

\* The decoder handleErrorResponse awaits.
ChooseErrorDecoder(contentType) ==
  IF Includes(contentType, CT_json) THEN "json" ELSE "text"

\* response.json(), response.text() and response.blob() on a body that has
\* arrived whole: `wire` is the text sent.
Decode(decoder, wire) ==
  CASE decoder = "json" ->
         IF JsonParse(wire).ok THEN Return(JsonParse(wire).value)
         ELSE Throw(RawError("SyntaxError", "SyntaxError", M_unexpectedToken))
    [] decoder = "blob" -> Return(BlobOf(wire))
    [] OTHER -> Return(wire)

\* parseResponse without its catch block: the decoder's error goes on as
\* it is.
parseResponse_NoCatch(read) ==
  IF read.threw THEN Throw(read.value) ELSE Return(read.value)

\* parseResponse once the decoder has settled with `read`: the data, or
\* the ParseError thrown.
parseResponse(read) ==
  IF read.threw
  THEN Throw(ParseError(Str(MSG_FailedToParse \o
                            (IF InstanceOf(read.value, "Error") THEN read.value.message
                             ELSE MSG_UnknownError)),
                        IF InstanceOf(read.value, "Error") THEN read.value ELSE Undefined))
  ELSE Return(read.value)

\* handleErrorResponse without its try block: a failed read is thrown on.
handleErrorResponse_NoTry(status, statusText, read) ==
  IF read.threw THEN read.value
  ELSE createErrorFromResponse(status, read.value,
                               Str(MSG_HTTP \o DigitsOf(status) \o MSG_ColonSp \o statusText)).value

\* handleErrorResponse once the decoder has settled with `read`: what it
\* throws. A failed read leaves errorBody null; createErrorFromResponse
\* returns the error to throw, or throws itself.
handleErrorResponse(status, statusText, read) ==
  createErrorFromResponse(status,
                          IF read.threw THEN Null ELSE read.value,
                          Str(MSG_HTTP \o DigitsOf(status) \o MSG_ColonSp \o statusText)).value

\* response.ok.
IsOk(status) == status >= 200 /\ status <= 299

\* ------------------------------------------------------------------ state
VARIABLES
  client,    \* the EmailListVerifyClient instance: its HttpClient's config
  ctorCall,  \* the last constructor call: its arguments and how it ended
  calls,     \* per call slot: the request in flight, its timer, its outcome
  fIn,       \* the arguments of the createErrorFromResponse call under test
  fOut       \* what that call ended with, Pending before it

vars == <<client, ctorCall, calls, fIn, fOut>>

CallIds == 1..MaxCalls

NoClient == [constructed |-> FALSE, config |-> Undefined]

NoCtorCall == [apiKey |-> Undefined, options |-> Undefined, outcome |-> Pending]

\* A call slot nobody is using.
IdleCall ==
  [pc |-> "idle", op |-> "none", a1 |-> Undefined, a2 |-> Undefined,
   fetches |-> 0, sent |-> Undefined, timer |-> "none", aborted |-> FALSE,
   timeout |-> Undefined, expectedType |-> Undefined, head |-> Undefined,
   decoder |-> "none", wire |-> Undefined, outcome |-> Pending]

NoHeaders == [h \in {} |-> ""]

NoOptions == [baseUrl |-> Undefined, timeout |-> Undefined, headers |-> NoHeaders]

\* -------------------------------------------------------------- actions
\* new EmailListVerifyClient(apiKey, options).
Construct(apiKey, options) ==
  /\ ~client.constructed
  /\ LET r == Constructor(apiKey, options) IN
       /\ ctorCall' = [apiKey |-> apiKey, options |-> options, outcome |-> r]
       /\ client' = IF r.threw THEN client
                    ELSE [constructed |-> TRUE, config |-> r.value]
  /\ UNCHANGED <<calls, fIn, fOut>>

\* The call settles: the promise the caller holds resolves or rejects. The
\* endpoint methods neither catch nor wrap what the transport throws.
Settle(call, outcome) ==
  [call EXCEPT !.pc = "settled", !.outcome = outcome]

\* HttpClient.request up to its first await, run by the endpoint method or
\* called directly: buildUrl (outside the try block), setTimeout, then the
\* arguments of fetch (buildHeaders, buildBody) and fetch itself inside the
\* try block.
StartRequest(call, d) ==
  LET config == client.config
      url == buildUrl(config, d.path, d.params)
      timeout == IF d.timeout # Undefined /\ d.timeout # Null THEN d.timeout
                 ELSE config.timeout
      body == buildBody(d.body)
  IN IF url.threw THEN Settle(call, Throw(url.value))
     ELSE IF body.threw
     THEN Settle([call EXCEPT !.timer = "cleared", !.timeout = timeout],
                 Throw(RequestCatch(body.value, timeout)))
     ELSE [call EXCEPT !.pc = "awaitFetch",
                       !.timer = "armed",
                       !.timeout = timeout,
                       !.expectedType = d.responseType,
                       !.fetches = @ + 1,
                       !.sent = [url |-> url.value, method |-> d.method,
                                 headers |-> buildHeaders(config, NoHeaders, d.body),
                                 body |-> body.value]]

\* The caller calls the endpoint method op(a1, a2) on call slot c; op
\* "request" is HttpClient.request(a1.path, a1) called directly.
Invoke(c, op, a1, a2) ==
  /\ client.constructed
  /\ calls[c].pc = "idle"
  /\ LET call == [IdleCall EXCEPT !.op = op, !.a1 = a1, !.a2 = a2]
         plan == IF op = "request" THEN Return(a1) ELSE Endpoint(op, a1, a2)
     IN calls' = [calls EXCEPT ![c] =
                    IF plan.threw THEN Settle(call, plan)
                    ELSE StartRequest(call, plan.value)]
  /\ UNCHANGED <<client, ctorCall, fIn, fOut>>

\* TimerFires with one AbortController shared by the calls of the client:
\* the timer of call c aborts every fetch that is pending.
TimerFires_SharedController(c) ==
  /\ calls[c].pc = "awaitFetch"
  /\ calls[c].timer = "armed"
  /\ calls' = [d \in DOMAIN calls |->
       IF calls[d].pc = "awaitFetch"
       THEN Settle([calls[d] EXCEPT !.timer = "fired", !.aborted = TRUE],
                   Throw(RequestCatch(RawError("DOMException", "AbortError", M_aborted),
                                      calls[d].timeout)))
       ELSE calls[d]]
  /\ UNCHANGED <<client, ctorCall, fIn, fOut>>

\* The timer of request() fires while fetch is pending: controller.abort()
\* makes fetch reject with an AbortError, which the catch block receives.
TimerFires(c) ==
  /\ calls[c].pc = "awaitFetch"
  /\ calls[c].timer = "armed"
  /\ calls' = [calls EXCEPT ![c] =
       Settle([@ EXCEPT !.timer = "fired", !.aborted = TRUE],
              Throw(RequestCatch(RawError("DOMException", "AbortError", M_aborted),
                                 @.timeout)))]
  /\ UNCHANGED <<client, ctorCall, fIn, fOut>>

\* FetchRejects with one retry: the first rejection issues fetch again.
FetchRejects_Retry(c, error) ==
  /\ calls[c].pc = "awaitFetch"
  /\ calls' = [calls EXCEPT ![c] =
       IF @.fetches < 2 THEN [@ EXCEPT !.fetches = @ + 1]
       ELSE Settle([@ EXCEPT !.timer = "cleared"],
                   Throw(RequestCatch(error, @.timeout)))]
  /\ UNCHANGED <<client, ctorCall, fIn, fOut>>

\* fetch rejects with `error` before any response: the catch block clears
\* the timer and rethrows, wrapped or not.
FetchRejects(c, error) ==
  /\ calls[c].pc = "awaitFetch"
  /\ calls' = [calls EXCEPT ![c] =
       Settle([@ EXCEPT !.timer = "cleared"],
              Throw(RequestCatch(error, @.timeout)))]
  /\ UNCHANGED <<client, ctorCall, fIn, fOut>>

\* FetchResolves without the clearTimeout that follows fetch.
FetchResolves_TimerLeft(c, head) ==
  /\ calls[c].pc = "awaitFetch"
  /\ calls' = [calls EXCEPT ![c] =
       [@ EXCEPT !.head = head,
                 !.pc = IF IsOk(head.status) THEN "awaitBody" ELSE "awaitErrorBody",
                 !.decoder = IF IsOk(head.status)
                             THEN ChooseDecoder(head.contentType, calls[c].expectedType)
                             ELSE ChooseErrorDecoder(head.contentType)]]
  /\ UNCHANGED <<client, ctorCall, fIn, fOut>>

\* fetch resolves with the head of a response: the timer is cleared, then
\* the body is awaited by handleErrorResponse (not ok) or parseResponse.
FetchResolves(c, head) ==
  /\ calls[c].pc = "awaitFetch"
  /\ calls' = [calls EXCEPT ![c] =
       [@ EXCEPT !.timer = "cleared",
                 !.head = head,
                 !.pc = IF IsOk(head.status) THEN "awaitBody" ELSE "awaitErrorBody",
                 !.decoder = IF IsOk(head.status)
                             THEN ChooseDecoder(head.contentType, calls[c].expectedType)
                             ELSE ChooseErrorDecoder(head.contentType)]]
  /\ UNCHANGED <<client, ctorCall, fIn, fOut>>

\* What request() ends with once the body read has settled with `read`.
AfterBody(call, read) ==
  IF call.pc = "awaitErrorBody"
  THEN Throw(RequestCatch(handleErrorResponse(call.head.status, call.head.statusText, read),
                          call.timeout))
  ELSE IF parseResponse(read).threw
  THEN Throw(RequestCatch(parseResponse(read).value, call.timeout))
  ELSE LET envelope == [data |-> parseResponse(read).value,
                        status |-> call.head.status,
                        contentType |-> call.head.contentType]
       IN Return(IF call.op = "request" THEN [t |-> "envelope", envelope |-> envelope]
                 ELSE EndpointResult(call.op, envelope))

\* The body arrives whole, `wire` being its text, and is decoded.
BodyArrives(c, wire) ==
  /\ calls[c].pc \in {"awaitBody", "awaitErrorBody"}
  /\ calls' = [calls EXCEPT ![c] =
       Settle([@ EXCEPT !.wire = wire], AfterBody(@, Decode(@.decoder, wire)))]
  /\ UNCHANGED <<client, ctorCall, fIn, fOut>>

\* The body stream fails: the read rejects with `error`.
BodyFails(c, error) ==
  /\ calls[c].pc \in {"awaitBody", "awaitErrorBody"}
  /\ calls' = [calls EXCEPT ![c] = Settle(@, AfterBody(@, Throw(error)))]
  /\ UNCHANGED <<client, ctorCall, fIn, fOut>>

\* The caller has taken the result of a settled call; the slot is free.
Consume(c) ==
  /\ calls[c].pc = "settled"
  /\ calls' = [calls EXCEPT ![c] = IdleCall]
  /\ UNCHANGED <<client, ctorCall, fIn, fOut>>

\* ---------------------------------------- the error factory on its own
RECURSIVE Concat(_)
Concat(parts) ==
  IF Len(parts) = 0 THEN << >> ELSE Head(parts) \o Concat(Tail(parts))

Fragments ==
  {F_Credit, F_TooMany, F_File, F_NotFinished, F_EmailJob, F_PlacementX,
   F_Plain, F_Unauthorized, F_Required, F_NearMiss, S_maillist}

\* Messages a server may send: up to MaxFrags fragments, one after another.
Messages ==
  {Concat(parts) : parts \in UNION {[1..n -> Fragments] : n \in 0..MaxFrags}}

\* Values of the message property that are not strings.
OddMessages ==
  {Undefined, Null, Num(0), Num(42), Bool(TRUE), Arr(<< >>), Arr(<<Str(F_Plain)>>)}

ErrorObject(status, m) == Obj([statusCode |-> Num(status), message |-> m])

\* The bodies handleErrorResponse can hand over: a decoded JSON value, the
\* raw text, or null.
BodiesOf(status, m) ==
  {ErrorObject(status, Str(m)), Str(m), JsonText(ErrorObject(status, Str(m)))}

OddBodies(status) ==
  {Null, Str(S_null), Obj([message |-> Str(F_Plain), error |-> Str(F_Credit \o F_File \o F_EmailJob)]), Obj([statusCode |-> Num(status)]), Arr(<< >>),
   JsonText(Str(F_Credit)), Str(<<"4", "2">>)}
  \cup {ErrorObject(status, m) : m \in OddMessages}

FStatuses == {400, 401, 403, 404, 429, 500, 302}

DefaultMessages == {MSG_ApiRequestFailed}

\* Each input records, next to the body, the message the server sent in it
\* (undefined when the body carries no string message).
FactoryInputs ==
  {[statusCode |-> x[1], body |-> x[3], sent |-> Str(x[2]), defaultMessage |-> Str(d)] :
     x \in UNION {{<<st, m, b>> : b \in BodiesOf(st, m)} : st \in FStatuses, m \in Messages},
     d \in DefaultMessages}
  \cup
  {[statusCode |-> x[1], body |-> x[2], sent |-> Undefined, defaultMessage |-> Str(d)] :
     x \in UNION {{<<st, b>> : b \in OddBodies(st)} : st \in FStatuses},
     d \in DefaultMessages}

FInit ==
  /\ fIn \in FactoryInputs
  /\ fOut = Pending
  /\ client = NoClient
  /\ ctorCall = NoCtorCall
  /\ calls = [c \in CallIds |-> IdleCall]

Classify ==
  /\ fOut = Pending
  /\ fOut' = createErrorFromResponse(fIn.statusCode, fIn.body, fIn.defaultMessage)
  /\ UNCHANGED <<fIn, client, ctorCall, calls>>

FNext == Classify

SpecFactory == FInit /\ [][FNext]_vars

\* ------------------------------------------- the client and its transport
\* Runs of white space of at most MaxPad characters.
PadRuns == UNION {[1..n -> {" ", "\t"}] : n \in 0..MaxPad}

\* core with white space around it.
Padded(core) == {l \o core \o r : l \in PadRuns, r \in PadRuns}

CustomHeaders == [h \in {"X-Custom-Header"} |-> "test-value"]

\* Constructor arguments: a usable key, an empty one; no options, a base
\* URL without scheme, a timeout of 5 ms.
SpecKeys == {Str(<< >>), Str(<<" ">> \o K_key \o <<" ">>)}

SpecOptions ==
  {NoOptions,
   [NoOptions EXCEPT !.baseUrl = Str(U_noScheme)],
   [NoOptions EXCEPT !.timeout = Num(5), !.headers = CustomHeaders],
   [NoOptions EXCEPT !.timeout = Num(0)]}

\* Emails without white space around their core, and white space alone.
PlainEmailArgs ==
  {Undefined, Null, Num(42), Str(<< >>), Str(E_noAt), Str(E_short), Str(E_ab),
   Str(<<" ">> \o E_short \o <<" ">>), Str(E_full)}
  \cup {Str(s) : s \in PadRuns \ {<< >>}}

EmailArgs == PlainEmailArgs \cup {Str(s) : s \in Padded(E_full)}

\* An id that holds a query of its own.
ID_query == <<"j", "1", "?", "s", "e", "c", "r", "e", "t", "=", "x">>

IdArgs ==
  {Undefined, Null, Str(<< >>), Str(<<" ">>), Str(ID_j1), Num(42), Str(ID_query)}

BigInt == [t |-> "bigint"]

EmailJobRequests ==
  {Obj([email |-> e]) : e \in {Undefined, Num(42), Str(<< >>), Str(E_noAt), Str(E_full)}}
  \cup {Obj([email |-> Str(E_full), quality |-> q]) : q \in {Undefined, BigInt}}

FindContactRequests ==
  {Obj([domain |-> d]) : d \in {Undefined, Str(<< >>), Str(D_example)}}
  \cup {Obj([domain |-> Str(D_example), firstName |-> BigInt])}

FileArgs == {Undefined, Null, BlobOf(Str(T_csvRow)), BufferOf(Str(T_csvRow))}

FilenameArgs == {Undefined, Str(<< >>), Str(FN_csv)}

N_addFirstName == <<"a", "d", "d", "F", "i", "r", "s", "t", "N", "a", "m", "e">>
N_results == <<"r", "e", "s", "u", "l", "t", "s">>
N_format == <<"f", "o", "r", "m", "a", "t">>
T_unknown == <<"u", "n", "k", "n", "o", "w", "n">>
T_xlsx == <<"x", "l", "s", "x">>
T_csv == <<"c", "s", "v">>

DownloadOptions ==
  {Undefined,
   [entries |-> <<<<N_addFirstName, Bool(TRUE)>>,
                  <<N_results, Arr(<<Str(T_ok), Str(T_unknown)>>)>>>>],
   [entries |-> <<<<N_format, Str(T_xlsx)>>, <<N_addFirstName, Undefined>>,
                  <<N_results, Null>>>>],
   [entries |-> <<<<N_addFirstName, Bool(FALSE)>>, <<N_results, Str(T_ok)>>,
                  <<N_format, Num(42)>>>>],
   [entries |-> <<<<N_format, Str(T_csv)>>>>]}

PlacementRequests == {Undefined, Obj([name |-> Str(T_ok)])}

\* Descriptors for HttpClient.request called directly.
DirectRequests ==
  {[HttpGet(P_credits, NoParams) EXCEPT !.responseType = rt, !.timeout = to] :
     rt \in {Undefined, Str(<<"t", "e", "x", "t">>), Str(<<"b", "l", "o", "b">>),
             Str(<<"j", "s", "o", "n">>)},
     to \in {Undefined, Num(1)}}
  \cup {[HttpGet(P_credits, NoParams) EXCEPT !.timeout = Num(0)]}
  \cup {HttpPost(P_emailJobs, b, NoParams) :
          b \in {Num(0), Bool(FALSE), Str(<< >>), Obj([email |-> Str(E_full)])}}
  \cup {HttpGet(P_credits, <<<<N_format, Undefined>>, <<N_results, Null>>,
                             <<N_addFirstName, Bool(FALSE)>>, <<N_jobId, Num(42)>>,
                             <<N_domain, Str(D_example)>>>>)}

\* The arguments tried for each operation.
ArgsOf(op) ==
  CASE op = "verifyEmail" -> EmailArgs \X {Undefined}
    [] op = "verifyEmailDetailed" -> PlainEmailArgs \X {Undefined}
    [] op = "createEmailJob" -> EmailJobRequests \X {Undefined}
    [] op = "findContact" -> FindContactRequests \X {Undefined}
    [] op = "checkDisposable" -> (IdArgs \cup {Str(D_example)}) \X {Undefined}
    [] op = "uploadBulkFile" -> FileArgs \X FilenameArgs
    [] op = "downloadBulkResults" -> {Str(<< >>), Str(ID_j1)} \X DownloadOptions
    [] op = "getCredits" -> {Undefined} \X {Undefined}
    [] op = "createPlacementTest" -> PlacementRequests \X {Undefined}
    [] op = "request" -> DirectRequests \X {Undefined}
    [] OTHER -> IdArgs \X {Undefined}

\* What fetch may reject with while no abort was signalled: the TypeError
\* of a network failure, or any other error a fetch implementation throws.
FetchFailures ==
  {TypeErrorOf(M_fetchFailed), RawError("Error", "Error", M_connReset)}

\* What a body read may reject with: the TypeError of a broken stream.
BodyFailures == {TypeErrorOf(M_terminated)}

Statuses == {200, 400, 401, 403, 404, 429, 500}

ContentTypes == {CT_jsonUtf8, CT_plain, CT_html, << >>}

StatusText(status) == IF IsOk(status) THEN ST_OK ELSE ST_NotFound

\* Every status under each content type; text/html, which the decoder of
\* error bodies does not tell from text/plain, under 200 alone.
Heads ==
  {[status |-> st, statusText |-> StatusText(st), contentType |-> ct] :
     st \in Statuses, ct \in ContentTypes \ {CT_html}}
  \cup {[status |-> 200, statusText |-> StatusText(200), contentType |-> CT_html]}

\* Messages of error bodies, each meeting one heuristic or none.
SpecMessages ==
  {Str(F_Plain), Str(F_TooMany \o F_Credit), Str(F_NotFinished \o F_File),
   Str(F_PlacementX), Str(F_EmailJob), Arr(<<Str(F_Plain)>>)}

CreditsBody == Obj([onDemand |-> Obj([available |-> Num(42)])])

\* Body texts: error objects, a JSON object, a JSON string, bare text,
\* nothing.
Wires(status) ==
  {JsonText(ErrorObject(status, m)) : m \in SpecMessages}
  \cup {JsonText(CreditsBody), JsonText(Str(T_ok)), Str(T_ok), Str(F_PlacementX),
        Str(<< >>)}

Init ==
  /\ client = NoClient
  /\ ctorCall = NoCtorCall
  /\ calls = [c \in CallIds |-> IdleCall]
  /\ fIn = [statusCode |-> 500, body |-> Null, sent |-> Undefined,
            defaultMessage |-> Str(MSG_ApiRequestFailed)]
  /\ fOut = Pending

\* The caller awaits each call before the next one.
NoCallInFlight == \A c \in CallIds : calls[c].pc = "idle"

Next ==
  \/ \E k \in SpecKeys, o \in SpecOptions : Construct(k, o)
  \/ \E c \in CallIds, op \in Operations \cup {"request"} :
       \E a \in ArgsOf(op) : NoCallInFlight /\ Invoke(c, op, a[1], a[2])
  \/ \E c \in CallIds : TimerFires(c)
  \/ \E c \in CallIds, e \in FetchFailures : FetchRejects(c, e)
  \/ \E c \in CallIds, h \in Heads : FetchResolves(c, h)
  \/ \E c \in CallIds :
       /\ calls[c].head # Undefined
       /\ \E w \in Wires(calls[c].head.status) : BodyArrives(c, w)
  \/ \E c \in CallIds, e \in BodyFailures : BodyFails(c, e)
  \/ \E c \in CallIds : Consume(c)

Spec == Init /\ [][Next]_vars

\* ================================================================= claims
\* sub occurs in s when letter case is ignored.
ContainsIgnoringCase(s, sub) ==
  \E i \in 0..(Len(s) - Len(sub)) :
    \A k \in 1..Len(sub) : LowerChar(s[i + k]) = LowerChar(sub[k])

\* The factory has run on a body carrying a non-empty string message.
Classified(status) ==
  /\ fOut # Pending
  /\ fIn.statusCode = status
  /\ fIn.sent # Undefined
  /\ Len(fIn.sent.s) > 0

\* C8: for status 403 a message containing 'credit' (any letter case)
\* yields INSUFFICIENT_CREDITS, otherwise one containing 'too many' yields
\* TOO_MANY_JOBS, otherwise FORBIDDEN; with both substrings present the
\* result is INSUFFICIENT_CREDITS.
C8_Forbidden403 ==
  Classified(403) =>
    /\ ~fOut.threw
    /\ fOut.value.statusCode = Num(403)
    /\ fOut.value.code =
         IF ContainsIgnoringCase(fIn.sent.s, S_credit) THEN "INSUFFICIENT_CREDITS"
         ELSE IF ContainsIgnoringCase(fIn.sent.s, S_too_many) THEN "TOO_MANY_JOBS"
         ELSE "FORBIDDEN"

\* A 403 message with 'too many' ahead of 'credit' was classified as
\* INSUFFICIENT_CREDITS.
C8_Witness ==
  /\ Classified(403)
  /\ fIn.sent.s = F_TooMany \o F_Credit
  /\ fOut.value.code = "INSUFFICIENT_CREDITS"

\* The 400 heuristics with the code strings given as parameters.
BadRequest400(notFinishedCode) ==
  Classified(400) =>
    /\ ~fOut.threw
    /\ fOut.value.statusCode = Num(400)
    /\ fOut.value.code =
         IF ContainsIgnoringCase(fIn.sent.s, S_file) THEN "INVALID_FILE"
         ELSE IF ContainsIgnoringCase(fIn.sent.s, S_not_finished) THEN notFinishedCode
         ELSE "BAD_REQUEST"

\* C9 as stated: for status 400 a message containing 'file' yields
\* INVALID_FILE, otherwise one containing 'not finished' yields
\* LIST_NOT_FINISHED, otherwise BAD_REQUEST.
C9_Original == BadRequest400("LIST_NOT_FINISHED")

\* C9 amended: the code string of the 'not finished' variant is
\* MAILLIST_NOT_FINISHED; the order (file first) is as stated.
C9_BadRequest400 == BadRequest400("MAILLIST_NOT_FINISHED")

\* A 400 message with 'not finished' ahead of 'file' was classified as
\* INVALID_FILE.
C9_Witness ==
  /\ Classified(400)
  /\ fIn.sent.s = F_NotFinished \o F_File
  /\ fOut.value.code = "INVALID_FILE"

\* ------------------------------------------------ claims on the transport
Settled(c) == calls[c].pc = "settled"

Rejected(c) == Settled(c) /\ calls[c].outcome.threw

\* The call was rejected with a typed error of code `code`.
RejectedWith(c, code) ==
  /\ Rejected(c)
  /\ isEmailListVerifyError(calls[c].outcome.value)
  /\ calls[c].outcome.value.code = code

\* C1: whatever the outcome, the value a call rejects with is an error of
\* the typed taxonomy (EmailListVerifyError or a subclass), never a raw
\* Error or TypeError.
C1_NoUntypedFailure ==
  \A c \in CallIds :
    Rejected(c) => isEmailListVerifyError(calls[c].outcome.value)

\* The call passed an empty string for the required string parameter of
\* its operation (for uploadBulkFile: the filename, next to a file).
EmptyRequired(c) ==
  \/ /\ calls[c].op \in {"getEmailJob", "checkDisposable", "getBulkProgress",
                         "downloadBulkResults", "deleteBulkList"}
     /\ calls[c].a1 = Str(<< >>)
  \/ /\ calls[c].op = "findContact"
     /\ GetProp(calls[c].a1, "domain") = Str(<< >>)
  \/ /\ calls[c].op = "uploadBulkFile"
     /\ calls[c].a1 \notin {Undefined, Null}
     /\ calls[c].a2 = Str(<< >>)

\* The name of that parameter.
RequiredName(op) ==
  CASE op = "getEmailJob" -> N_jobId
    [] op \in {"findContact", "checkDisposable"} -> N_domain
    [] op = "uploadBulkFile" -> N_filename
    [] OTHER -> N_fileId

\* C2: an empty string passed for a required string parameter rejects with
\* VALIDATION_ERROR whose field names the parameter, and fetch is never
\* called.
C2_EmptyRequiredString ==
  \A c \in CallIds :
    EmptyRequired(c) =>
      /\ RejectedWith(c, "VALIDATION_ERROR")
      /\ calls[c].outcome.value.field = Str(RequiredName(calls[c].op))
      /\ calls[c].fetches = 0
      /\ calls[c].sent = Undefined

\* uploadBulkFile(blob, '') was rejected naming the filename.
C2_Witness ==
  \E c \in CallIds :
    /\ calls[c].op = "uploadBulkFile"
    /\ EmptyRequired(c)
    /\ calls[c].outcome.value.field = Str(N_filename)

\* The call's local validation failed.
ValidationFailed(c) == RejectedWith(c, "VALIDATION_ERROR")

Buildable(c) ==
  /\ \/ HasPrefix(client.config.baseUrl.s, U_https)
     \/ HasPrefix(client.config.baseUrl.s, U_http)
  /\ calls[c].op \in {"createEmailJob", "findContact", "createPlacementTest"}
       => Serialisable(calls[c].a1)

C5_TimeoutNotNetwork ==
  \A c \in CallIds :
    /\ calls[c].timer = "fired" =>
         /\ RejectedWith(c, "TIMEOUT")
         /\ InstanceOf(calls[c].outcome.value, "TimeoutError")
         /\ ~InstanceOf(calls[c].outcome.value, "NetworkError")
         /\ calls[c].outcome.value.statusCode = Undefined
         /\ calls[c].outcome.value.cause.name = "AbortError"
         /\ calls[c].head = Undefined
    /\ RejectedWith(c, "NETWORK_ERROR") => ~calls[c].aborted

\* A call with a per-call timeout was rejected with TIMEOUT.
C5_Witness ==
  \E c \in CallIds :
    /\ calls[c].timer = "fired"
    /\ calls[c].timeout = Num(1)
    /\ RejectedWith(c, "TIMEOUT")

\* The codes of the family of each status; the not-finished variant under
\* the code MaillistNotFinishedError gives it.
Family(status) ==
  CASE status = 400 -> {"BAD_REQUEST", "INVALID_FILE", "MAILLIST_NOT_FINISHED"}
    [] status = 401 -> {"AUTH_ERROR"}
    [] status = 403 -> {"FORBIDDEN", "INSUFFICIENT_CREDITS", "TOO_MANY_JOBS"}
    [] status = 404 -> {"NOT_FOUND"}
    [] status = 429 -> {"RATE_LIMIT"}
    [] OTHER -> {"API_ERROR"}

\* The call received a response that is not 2xx and has settled.
AnsweredNotOk(c) ==
  /\ Settled(c)
  /\ calls[c].head # Undefined
  /\ ~IsOk(calls[c].head.status)

\* C7: a non-2xx response with status s surfaces from request() as an
\* error of the family of s; the 404 variants keep code NOT_FOUND and
\* status 404, and a status outside 400, 401, 403, 404, 429 gives API_ERROR.
C7_FamilyByStatus ==
  \A c \in CallIds :
    AnsweredNotOk(c) =>
      /\ Rejected(c)
      /\ isEmailListVerifyError(calls[c].outcome.value)
      /\ calls[c].outcome.value.code \in Family(calls[c].head.status)
      /\ calls[c].outcome.value.statusCode = Num(calls[c].head.status)
      /\ calls[c].head.status = 404 =>
           InstanceOf(calls[c].outcome.value, "NotFoundError")

\* C10: a 404 JSON response {statusCode: 404, message: m} whose message
\* reports a placement test not found raises an error of the NOT_FOUND
\* family with status 404 and message m.
C10_PlacementTestMessage ==
  \A c \in CallIds :
    ( /\ AnsweredNotOk(c)
      /\ calls[c].head.status = 404
      /\ calls[c].head.contentType = CT_jsonUtf8
      /\ calls[c].wire = JsonText(ErrorObject(404, Str(F_PlacementX))) )
    => /\ Rejected(c)
       /\ InstanceOf(calls[c].outcome.value, "NotFoundError")
       /\ calls[c].outcome.value.code = "NOT_FOUND"
       /\ calls[c].outcome.value.statusCode = Num(404)
       /\ calls[c].outcome.value.message = F_PlacementX

\* ------------------------------------------------ the constructor on its own
\* Credentials: values that are no string, white space only, and keys with
\* white space around (and inside) them.
CtorKeys ==
  {Undefined, Null, Num(42), Bool(TRUE)}
  \cup {Str(k) : k \in Padded(<< >>) \cup Padded(<<"\n">>)
                       \cup Padded(K_key) \cup Padded(K_keySp)}

\* Construction, then getCredits() to see the credential on the wire.
CtorNext ==
  \/ \E k \in CtorKeys, o \in SpecOptions : Construct(k, o)
  \/ \E c \in CallIds : NoCallInFlight /\ Invoke(c, "getCredits", Undefined, Undefined)

SpecCtor == Init /\ [][CtorNext]_vars

\* t is s without the white space at its two ends.
IsTrimOf(t, s) ==
  \E i \in 0..Len(s), j \in 0..Len(s) :
    /\ i + j <= Len(s)
    /\ t = SubSeq(s, i + 1, Len(s) - j)
    /\ \A k \in 1..i : s[k] \in WhiteSpace
    /\ \A k \in (Len(s) - j + 1)..Len(s) : s[k] \in WhiteSpace
    /\ t = << >> \/ (t[1] \notin WhiteSpace /\ t[Len(t)] \notin WhiteSpace)

\* The credential is a string that is non-empty after trimming.
UsableKey(k) == IsStr(k) /\ ~IsTrimOf(<< >>, k.s)

\* C3: construction succeeds exactly when the credential is a string that
\* is non-empty after trimming; the credential stored, and sent as the
\* secret parameter, is the trimmed one; otherwise construction throws
\* VALIDATION_ERROR with field apiKey and nothing is ever fetched.
C3_ConstructorTrims ==
  ctorCall.outcome # Pending =>
    /\ ctorCall.outcome.threw <=> ~UsableKey(ctorCall.apiKey)
    /\ ctorCall.outcome.threw =>
         /\ isEmailListVerifyError(ctorCall.outcome.value)
         /\ ctorCall.outcome.value.code = "VALIDATION_ERROR"
         /\ ctorCall.outcome.value.field = Str(N_apiKey)
         /\ ~client.constructed
         /\ \A c \in CallIds : calls[c].fetches = 0
    /\ ~ctorCall.outcome.threw =>
         /\ client.constructed
         /\ IsStr(client.config.apiKey)
         /\ IsTrimOf(client.config.apiKey.s, ctorCall.apiKey.s)
         /\ \A c \in CallIds :
              calls[c].sent # Undefined =>
                \E i \in 1..Len(calls[c].sent.url.searchParams) :
                  /\ calls[c].sent.url.searchParams[i][1] = K_secret
                  /\ IsTrimOf(calls[c].sent.url.searchParams[i][2], ctorCall.apiKey.s)

\* A key given with white space around it was sent trimmed.
C3_Witness ==
  /\ ctorCall.outcome # Pending
  /\ ~ctorCall.outcome.threw
  /\ ctorCall.apiKey = Str(<<"\t">> \o K_keySp \o <<" ">>)
  /\ \E c \in CallIds :
       /\ calls[c].sent # Undefined
       /\ calls[c].sent.url.searchParams[1] = <<K_secret, K_keySp>>

\* ------------------------------------------------------------ deadlines
\* The timer set by request() fires unless it was cleared; what the remote
\* side does is under no obligation.
FairSpec == Spec /\ WF_vars(\E c \in CallIds : TimerFires(c))

InFlight(c) == calls[c].pc \in {"awaitFetch", "awaitBody", "awaitErrorBody"}

\* C6: every request eventually settles, however the remote side behaves:
\* a call in flight leads to a settled call.
C6_EventuallySettles ==
  \A c \in CallIds : InFlight(c) ~> Settled(c)

\* ------------------------------------------------- claims, second part
\* C11: classification keeps status and message: 401 with message
\* 'Unauthorized' yields AUTH_ERROR with status 401 and that message, and a
\* status outside 400, 401, 403, 404, 429 yields API_ERROR with the input
\* status and the message the server sent.
C11_StatusAndMessageKept ==
  /\ Classified(401) =>
       /\ ~fOut.threw
       /\ fOut.value.code = "AUTH_ERROR"
       /\ fOut.value.statusCode = Num(401)
       /\ fOut.value.message = fIn.sent.s
  /\ \A s \in FStatuses \ {400, 401, 403, 404, 429} :
       Classified(s) =>
         /\ ~fOut.threw
         /\ fOut.value.code = "API_ERROR"
         /\ fOut.value.name = "EmailListVerifyError"
         /\ fOut.value.statusCode = Num(s)
         /\ fOut.value.message = fIn.sent.s

\* 401 'Unauthorized', sent as JSON text, was classified.
C11_Witness ==
  /\ Classified(401)
  /\ fIn.sent.s = F_Unauthorized
  /\ fIn.body = JsonText(ErrorObject(401, Str(F_Unauthorized)))
  /\ fOut.value.message = F_Unauthorized

\* The call has handed a request to fetch.
Sent(c) == calls[c].sent # Undefined

\* How many parameters of the URL are named `name`.
CountParam(url, name) ==
  Cardinality({i \in 1..Len(url.searchParams) : url.searchParams[i][1] = name})

\* String(v) for the parameter values in use.
CoerceParam(v) ==
  CASE v = Bool(TRUE) -> S_true
    [] v = Bool(FALSE) -> S_false
    [] v = Num(42) -> <<"4", "2">>
    [] OTHER -> v.s

\* The parameters expected in the URL for the additional parameters given:
\* those neither undefined nor null, in order, coerced.
RECURSIVE ExpectedParams(_)
ExpectedParams(params) ==
  IF Len(params) = 0 THEN << >>
  ELSE (IF Head(params)[2] \in {Undefined, Null} THEN << >>
        ELSE <<<<Head(params)[1], CoerceParam(Head(params)[2])>>>>)
       \o ExpectedParams(Tail(params))

\* The parameters of the URL that are not named secret, in order.
RECURSIVE NonSecret(_)
NonSecret(pairs) ==
  IF Len(pairs) = 0 THEN << >>
  ELSE (IF Head(pairs)[1] = K_secret THEN << >> ELSE <<Head(pairs)>>)
       \o NonSecret(Tail(pairs))

\* Every URL sent carries `secret` once, with the trimmed credential.
SecretOnce ==
  \A c \in CallIds :
    Sent(c) =>
      /\ CountParam(calls[c].sent.url, K_secret) = 1
      /\ \E i \in 1..Len(calls[c].sent.url.searchParams) :
           /\ calls[c].sent.url.searchParams[i][1] = K_secret
           /\ IsTrimOf(calls[c].sent.url.searchParams[i][2], ctorCall.apiKey.s)

\* The additional parameters given to request() are in the URL sent,
\* without the undefined and null ones, coerced to strings.
ParamsCoerced ==
  \A c \in CallIds :
    Sent(c) /\ calls[c].op = "request" =>
      NonSecret(calls[c].sent.url.searchParams) = ExpectedParams(calls[c].a1.params)

\* C12: every URL handed to fetch carries the parameter secret exactly
\* once, with the trimmed credential as value; additional parameters whose
\* value is undefined or null are left out, the others are appended with
\* their value coerced to a string.
C12_SecretExactlyOnce == SecretOnce /\ ParamsCoerced

\* The body the call gave to the transport, undefined when it gave none.
BodyGiven(c) ==
  CASE calls[c].op \in {"createEmailJob", "findContact", "createPlacementTest"} -> calls[c].a1
    [] calls[c].op = "request" -> calls[c].a1.body
    [] calls[c].op = "uploadBulkFile" -> calls[c].sent.body
    [] OTHER -> Undefined

\* The value without its properties that are undefined, which no JSON text
\* can hold.
WithoutUndefined(v) ==
  IF v.t = "obj"
  THEN Obj([k \in {x \in DOMAIN v.props : v.props[x] # Undefined} |-> v.props[k]])
  ELSE v

HasContentType(c) == "Content-Type" \in DOMAIN calls[c].sent.headers

\* The headers and payload of the request of call c are those of a JSON
\* body, of a multipart form, or of no body, as `present` decides.
BodyRule(c, present) ==
  IF ~present
  THEN calls[c].sent.body = Undefined
  ELSE IF BodyGiven(c).t = "formdata"
  THEN /\ ~HasContentType(c)
       /\ calls[c].sent.body = BodyGiven(c)
  ELSE /\ HasContentType(c)
       /\ calls[c].sent.headers["Content-Type"] = "application/json"
       /\ IsStr(calls[c].sent.body)
       /\ JsonParse(calls[c].sent.body).ok
       /\ JsonParse(calls[c].sent.body).value = WithoutUndefined(BodyGiven(c))

\* C13: a body that is given and is no multipart form is sent as its JSON
\* encoding under Content-Type application/json; a multipart form is
\* passed through with no Content-Type set; no body, no payload.
C13_BodyAndContentType ==
  \A c \in CallIds : Sent(c) => BodyRule(c, BodyGiven(c) # Undefined)

\* The same with falsy bodies (0, false, the empty string) counted as no
\* body.
TruthyBodiesRule ==
  \A c \in CallIds : Sent(c) => BodyRule(c, Truthy(BodyGiven(c)))

\* The base endpoint URL of the client is a URL: new URL accepts it.
UsableBase ==
  /\ client.constructed
  /\ \/ HasPrefix(client.config.baseUrl.s, U_https)
     \/ HasPrefix(client.config.baseUrl.s, U_http)

\* The call is uploadBulkFile with a payload and a non-empty filename, on
\* a client whose base URL is a URL.
UploadCall(c) ==
  /\ UsableBase
  /\ calls[c].op = "uploadBulkFile"
  /\ calls[c].a1 \notin {Undefined, Null}
  /\ IsStr(calls[c].a2)
  /\ calls[c].a2.s # << >>

\* C14: uploadBulkFile with a payload and a non-empty filename issues (the
\* base URL being a URL) one POST whose multipart body has exactly one field, file_contents, with
\* that payload and filename, and no Content-Type header set; a null or
\* undefined file is rejected with VALIDATION_ERROR before any request.
C14_UploadMultipart ==
  \A c \in CallIds :
    /\ UploadCall(c) =>
         /\ Sent(c)
         /\ calls[c].fetches = 1
         /\ calls[c].sent.method = "POST"
         /\ calls[c].sent.url.href = ToChars(client.config.baseUrl) \o P_verifyApiFile
         /\ ~HasContentType(c)
         /\ calls[c].sent.body.t = "formdata"
         /\ Len(calls[c].sent.body.entries) = 1
         /\ calls[c].sent.body.entries[1].name = "file_contents"
         /\ calls[c].sent.body.entries[1].value.t = "blob"
         /\ calls[c].sent.body.entries[1].value.id = calls[c].a1.id
         /\ calls[c].sent.body.entries[1].filename = calls[c].a2
    /\ calls[c].op = "uploadBulkFile" /\ calls[c].a1 \in {Undefined, Null} =>
         /\ RejectedWith(c, "VALIDATION_ERROR")
         /\ calls[c].outcome.value.field = Str(N_file)
         /\ calls[c].fetches = 0
         /\ ~Sent(c)

\* A Buffer was uploaded as emails.csv.
C14_Witness ==
  \E c \in CallIds :
    /\ UploadCall(c)
    /\ calls[c].a1 = BufferOf(Str(T_csvRow))
    /\ calls[c].sent.body.entries[1].filename = Str(FN_csv)

ENC_results == <<"r", "e", "s", "u", "l", "t", "s", "=", "o", "k", "%", "2", "C", "u", "n", "k", "n", "o", "w", "n">>
ENC_addFirstName == <<"a", "d", "d", "F", "i", "r", "s", "t", "N", "a", "m", "e", "=", "t", "r", "u", "e">>

\* The strings of an array, one after another with commas between.
RECURSIVE CommaJoined(_)
CommaJoined(items) ==
  IF Len(items) = 0 THEN << >>
  ELSE IF Len(items) = 1 THEN items[1].s
  ELSE items[1].s \o <<",">> \o CommaJoined(Tail(items))

\* The parameter value expected for an option value.
ExpectedOption(v) == IF v.t = "arr" THEN CommaJoined(v.items) ELSE CoerceParam(v)

\* The call is downloadBulkResults with an id and options, on a client
\* whose base URL is a URL.
DownloadCall(c) ==
  /\ UsableBase
  /\ calls[c].op = "downloadBulkResults"
  /\ IsStr(calls[c].a1) /\ calls[c].a1.s # << >>
  /\ calls[c].a2 # Undefined

\* C15: downloadBulkResults turns every option that has a value into
\* exactly one query parameter under its own key, arrays joined by commas,
\* strings, numbers and booleans as they are; options without value give
\* no parameter; the URL reads addFirstName=true and results=ok%2Cunknown
\* for { addFirstName: true, results: ['ok', 'unknown'] }.
C15_OptionsFlattened ==
  \A c \in CallIds :
    DownloadCall(c) =>
      LET entries == calls[c].a2.entries
          url == calls[c].sent.url
      IN /\ Sent(c)
         /\ calls[c].sent.method = "GET"
         /\ \A i \in 1..Len(entries) :
              IF entries[i][2] \in {Undefined, Null}
              THEN CountParam(url, entries[i][1]) = 0
              ELSE /\ CountParam(url, entries[i][1]) = 1
                   /\ \E k \in 1..Len(url.searchParams) :
                        url.searchParams[k] = <<entries[i][1], ExpectedOption(entries[i][2])>>
         /\ Len(NonSecret(url.searchParams))
              = Cardinality({i \in 1..Len(entries) : entries[i][2] \notin {Undefined, Null}})
         /\ entries = <<<<N_addFirstName, Bool(TRUE)>>,
                        <<N_results, Arr(<<Str(T_ok), Str(T_unknown)>>)>>>>
              => /\ Includes(url.text, ENC_addFirstName)
                 /\ Includes(url.text, ENC_results)

\* The options of the example were sent.
C15_Witness ==
  \E c \in CallIds :
    /\ DownloadCall(c)
    /\ calls[c].a2.entries[1] = <<N_addFirstName, Bool(TRUE)>>
    /\ Includes(calls[c].sent.url.text, ENC_results)

\* The call is checkDisposable with a domain that validateRequired lets
\* through, on a client whose base URL is a URL.
DisposableCall(c) ==
  /\ UsableBase
  /\ calls[c].op = "checkDisposable"
  /\ calls[c].a1 \notin {Undefined, Null, Str(<< >>)}

\* C16: checkDisposable(domain) issues exactly one POST to
\* /api/checkDisposable that has no body and no Content-Type header and
\* carries the domain as the query parameter domain.
C16_DisposableByQuery ==
  \A c \in CallIds :
    DisposableCall(c) =>
      /\ Sent(c)
      /\ calls[c].fetches = 1
      /\ calls[c].sent.method = "POST"
      /\ calls[c].sent.url.href = ToChars(client.config.baseUrl) \o P_checkDisposable
      /\ calls[c].sent.body = Undefined
      /\ ~HasContentType(c)
      /\ NonSecret(calls[c].sent.url.searchParams)
           = <<<<N_domain, CoerceParam(calls[c].a1)>>>>

\* The domain example.com was asked about.
C16_Witness ==
  \E c \in CallIds :
    /\ DisposableCall(c)
    /\ calls[c].a1 = Str(D_example)
    /\ CountParam(calls[c].sent.url, N_domain) = 1

\* The decoder the description of the transport names for a 2xx response.
NamedDecoder(contentType, hint) ==
  IF hint = Str(<<"j", "s", "o", "n">>) THEN "json"
  ELSE IF hint = Str(<<"t", "e", "x", "t">>) THEN "text"
  ELSE IF hint = Str(<<"b", "l", "o", "b">>) THEN "blob"
  ELSE IF Includes(contentType, CT_json) THEN "json"
  ELSE "text"

\* The data the call handed back: response.data.
DataOf(c) ==
  IF calls[c].op = "request" THEN calls[c].outcome.value.envelope.data
  ELSE calls[c].outcome.value

\* The call has settled after a 2xx head.
SettledOk(c) ==
  /\ Settled(c)
  /\ calls[c].head # Undefined
  /\ IsOk(calls[c].head.status)

\* The body of call c arrived but is no JSON text, and JSON was to be read.
JsonUnreadable(c) ==
  /\ calls[c].wire # Undefined
  /\ NamedDecoder(calls[c].head.contentType, calls[c].expectedType) = "json"
  /\ ~JsonParse(calls[c].wire).ok

\* C17: on a 2xx response the body is decoded as the responseType hint
\* says, else as JSON under a JSON content-type and as text under any
\* other; a decoder that fails makes the call reject with PARSE_ERROR
\* whose cause is the decoder's error, never NETWORK_ERROR or a raw error.
C17_DecoderAndParseError ==
  \A c \in CallIds :
    SettledOk(c) =>
      LET d == NamedDecoder(calls[c].head.contentType, calls[c].expectedType)
      IN IF calls[c].wire = Undefined
         THEN /\ RejectedWith(c, "PARSE_ERROR")
              /\ calls[c].outcome.value.cause \in BodyFailures
         ELSE IF JsonUnreadable(c)
         THEN /\ RejectedWith(c, "PARSE_ERROR")
              /\ InstanceOf(calls[c].outcome.value.cause, "SyntaxError")
         ELSE /\ ~calls[c].outcome.threw
              /\ calls[c].op # "deleteBulkList" =>
                   DataOf(c) = CASE d = "json" -> JsonParse(calls[c].wire).value
                                 [] d = "blob" -> BlobOf(calls[c].wire)
                                 [] OTHER -> calls[c].wire

\* A body that is no JSON arrived under a JSON content-type and the call
\* was rejected.
C17_Witness ==
  \E c \in CallIds :
    /\ SettledOk(c)
    /\ calls[c].expectedType = Undefined
    /\ JsonUnreadable(c)
    /\ Rejected(c)

\* The body of the non-2xx response of call c could not be decoded: the
\* stream broke, or JSON was declared and the text is none.
ErrorBodyUnreadable(c) ==
  /\ AnsweredNotOk(c)
  /\ \/ calls[c].wire = Undefined
     \/ /\ Includes(calls[c].head.contentType, CT_json)
        /\ ~JsonParse(calls[c].wire).ok

\* C18: a non-2xx response whose body cannot be decoded makes the call
\* reject with the typed error of its status, never PARSE_ERROR, whose
\* message is "HTTP <status>: <status text>".
C18_UnreadableErrorBody ==
  \A c \in CallIds :
    ErrorBodyUnreadable(c) =>
      /\ RejectedWith(c, calls[c].outcome.value.code)
      /\ calls[c].outcome.value.code \in Family(calls[c].head.status)
      /\ calls[c].outcome.value.code # "PARSE_ERROR"
      /\ calls[c].outcome.value.statusCode = Num(calls[c].head.status)
      /\ calls[c].outcome.value.message
           = MSG_HTTP \o DigitsOf(calls[c].head.status) \o MSG_ColonSp
               \o calls[c].head.statusText

\* A 500 declared as JSON arrived with a body that is no JSON.
C18_Witness ==
  \E c \in CallIds :
    /\ ErrorBodyUnreadable(c)
    /\ calls[c].head.status = 500
    /\ calls[c].wire = Str(T_ok)
    /\ Rejected(c)

\* The call is verifyEmail with an email that validateEmail lets through,
\* on a client whose base URL is a URL, and a 2xx response whose body, a
\* bare string, has arrived.
VerifyAnswered(c) ==
  /\ UsableBase
  /\ calls[c].op = "verifyEmail"
  /\ validateEmail(calls[c].a1) = Undefined
  /\ SettledOk(c)
  /\ calls[c].wire # Undefined
  /\ "s" \in DOMAIN calls[c].wire

\* One GET to /api/verifyEmail was issued for call c, the email its query
\* parameter.
OneVerifyGet(c) ==
  /\ calls[c].fetches = 1
  /\ calls[c].sent.method = "GET"
  /\ calls[c].sent.url.href = ToChars(client.config.baseUrl) \o P_verifyEmail
  /\ NonSecret(calls[c].sent.url.searchParams) = <<<<N_email, calls[c].a1.s>>>>

\* C19: verifyEmail with an email that passes validation, answered 2xx
\* with a bare string, issues exactly one GET carrying the email as query
\* parameter and returns that string as the server sent it, under any
\* content type.
C19_VerifyReturnsRawString ==
  \A c \in CallIds :
    VerifyAnswered(c) =>
      /\ OneVerifyGet(c)
      /\ calls[c].outcome = Return(calls[c].wire)

\* The same, for the responses that do not declare JSON.
VerifyRawUnlessJson ==
  \A c \in CallIds :
    VerifyAnswered(c) =>
      /\ OneVerifyGet(c)
      /\ ~Includes(calls[c].head.contentType, CT_json) =>
           calls[c].outcome = Return(calls[c].wire)

\* The email of a call of verifyEmail, verifyEmailDetailed or
\* createEmailJob.
EmailOf(c) ==
  IF calls[c].op = "createEmailJob" THEN GetProp(calls[c].a1, "email") ELSE calls[c].a1

\* The email is missing, is no string, is empty after trimming, holds no
\* '@' or is shorter than 3 characters after trimming.
BadEmail(email) ==
  \/ email \in {Undefined, Null}
  \/ ~IsStr(email)
  \/ Trim(email.s) = << >>
  \/ \A i \in 1..Len(email.s) : email.s[i] # "@"
  \/ Len(Trim(email.s)) < 3

\* C20: verifyEmail, verifyEmailDetailed and createEmailJob reject with
\* VALIDATION_ERROR on field email, with no request, exactly when the
\* email is missing, no string, empty after trimming, without '@' or
\* shorter than 3 characters after trimming; any other email passes
\* validation and, the request being buildable, leads to one request.
C20_EmailValidation ==
  \A c \in CallIds :
    ( /\ calls[c].op \in {"verifyEmail", "verifyEmailDetailed", "createEmailJob"}
      /\ calls[c].pc # "idle" )
    => IF BadEmail(EmailOf(c))
       THEN /\ RejectedWith(c, "VALIDATION_ERROR")
            /\ InstanceOf(calls[c].outcome.value, "ValidationError")
            /\ calls[c].outcome.value.field = Str(N_email)
            /\ calls[c].fetches = 0
            /\ ~Sent(c)
       ELSE /\ ~ValidationFailed(c)
            /\ Buildable(c) => calls[c].fetches = 1 /\ Sent(c)

\* ' a@ ', two characters once trimmed, was turned down.
C20_Witness ==
  \E c \in CallIds :
    /\ calls[c].op = "verifyEmailDetailed"
    /\ calls[c].a1 = Str(<<" ">> \o E_short \o <<" ">>)
    /\ ValidationFailed(c)

\* ============================================== claims, third part
\* The call passed a value of white space only for the required
\* identifier of its operation.
BlankRequired(c) ==
  /\ calls[c].op \in {"getEmailJob", "checkDisposable", "getBulkProgress",
                      "deleteBulkList"}
  /\ IsStr(calls[c].a1)
  /\ calls[c].a1.s # << >>
  /\ Trim(calls[c].a1.s) = << >>

\* C21: a required identifier or string parameter that is white space
\* only rejects with VALIDATION_ERROR naming the field, and no request is
\* issued.
C21_BlankRequiredRejected ==
  \A c \in CallIds :
    BlankRequired(c) =>
      /\ RejectedWith(c, "VALIDATION_ERROR")
      /\ calls[c].outcome.value.field = Str(RequiredName(calls[c].op))
      /\ calls[c].fetches = 0
      /\ ~Sent(c)

\* The call is downloadBulkResults with an id and options, answered 2xx
\* with a body that has arrived.
DownloadAnswered(c) ==
  /\ DownloadCall(c)
  /\ SettledOk(c)
  /\ calls[c].wire # Undefined

\* The format the options of the call ask for.
FormatAsked(c) ==
  LET entries == calls[c].a2.entries
      at == {i \in 1..Len(entries) : entries[i][1] = N_format}
  IN IF at = {} THEN Undefined ELSE entries[CHOOSE i \in at : TRUE][2]

\* With format csv the body is returned as text (the response not
\* declaring JSON).
DownloadTextForCsv ==
  \A c \in CallIds :
    ( /\ DownloadAnswered(c)
      /\ FormatAsked(c) = Str(T_csv)
      /\ ~Includes(calls[c].head.contentType, CT_json) )
    => calls[c].outcome = Return(calls[c].wire)

\* With format xlsx the body is returned as a binary payload.
DownloadBinaryForXlsx ==
  \A c \in CallIds :
    ( /\ DownloadAnswered(c)
      /\ FormatAsked(c) = Str(T_xlsx) )
    => /\ ~calls[c].outcome.threw
       /\ calls[c].outcome.value.t \in {"blob", "buffer"}

\* C22: downloadBulkResults returns the body as raw text when the format
\* asked for is csv, and as a binary payload when it is xlsx.
C22_DownloadByFormat == DownloadTextForCsv /\ DownloadBinaryForXlsx

\* ------------------------------------------ concurrent calls on one client
\* The call slots of a caller that does not await one call before the next.
ConcIds == 1..(MaxCalls + 1)

ConcOptions == [NoOptions EXCEPT !.timeout = Num(5), !.headers = CustomHeaders]

\* The calls made concurrently: a GET, a POST with a JSON body, and a
\* request with a timeout of its own.
ConcCalls ==
  {[op |-> "verifyEmail", a1 |-> Str(E_full)],
   [op |-> "createEmailJob", a1 |-> Obj([email |-> Str(E_full)])],
   [op |-> "request", a1 |-> [HttpGet(P_credits, NoParams) EXCEPT !.timeout = Num(1)]]}

ConcHeads ==
  {[status |-> 200, statusText |-> StatusText(200), contentType |-> CT_plain],
   [status |-> 404, statusText |-> StatusText(404), contentType |-> CT_jsonUtf8]}

ConcWires(status) ==
  IF IsOk(status) THEN {Str(T_ok)} ELSE {JsonText(ErrorObject(status, Str(F_EmailJob)))}

\* The client has been constructed with a key, a timeout and a header.
ConcInit ==
  /\ client = [constructed |-> TRUE,
               config |-> Constructor(Str(K_key), ConcOptions).value]
  /\ ctorCall = [apiKey |-> Str(K_key), options |-> ConcOptions,
                 outcome |-> Constructor(Str(K_key), ConcOptions)]
  /\ calls = [c \in ConcIds |-> IdleCall]
  /\ fIn = [statusCode |-> 500, body |-> Null, sent |-> Undefined,
            defaultMessage |-> Str(MSG_ApiRequestFailed)]
  /\ fOut = Pending

\* Calls start while others are in flight; each fetch, body and timer
\* settles in any order.
ConcNext ==
  \/ \E c \in ConcIds, a \in ConcCalls : Invoke(c, a.op, a.a1, Undefined)
  \/ \E c \in ConcIds : TimerFires(c)
  \/ \E c \in ConcIds : FetchRejects(c, TypeErrorOf(M_fetchFailed))
  \/ \E c \in ConcIds, h \in ConcHeads : FetchResolves(c, h)
  \/ \E c \in ConcIds :
       /\ calls[c].head # Undefined
       /\ \E w \in ConcWires(calls[c].head.status) : BodyArrives(c, w)
  \/ \E c \in ConcIds, e \in BodyFailures : BodyFails(c, e)
  \/ \E c \in ConcIds : Consume(c)

SpecConc == ConcInit /\ [][ConcNext]_vars

\* One step of the client with concurrent calls: the configuration stays
\* as it is, the step belongs to one call and leaves every other call
\* alone, a call is aborted by its own armed timer only, a pending fetch
\* has its timer armed, and the outcome of a settled call stays.
ConcStep ==
  /\ client' = client
  /\ \A c \in ConcIds, d \in ConcIds :
       c # d /\ calls'[c] # calls[c] => calls'[d] = calls[d]
  /\ \A c \in ConcIds :
       /\ ~calls[c].aborted /\ calls'[c].aborted =>
            calls[c].timer = "armed" /\ calls'[c].timer = "fired"
       /\ calls'[c].pc = "awaitFetch" => calls'[c].timer = "armed"
       /\ calls[c].pc = "settled" /\ calls'[c].pc = "settled" =>
            calls'[c].outcome = calls[c].outcome
       /\ calls'[c].sent # Undefined /\ calls'[c].sent.body = Undefined =>
            "Content-Type" \notin DOMAIN calls'[c].sent.headers

\* C23: under any interleaving of concurrent calls on one client the
\* configuration is never modified, every call has its own timer and
\* abort, and the timeout, failure or completion of one call neither
\* aborts another call nor changes its outcome.
C23_ConcurrentCallsIsolated == [][ConcStep]_vars

\* One call has timed out while another, started before that, went on to
\* its result.
C23_Witness ==
  \E c \in ConcIds, d \in ConcIds :
    /\ c # d
    /\ calls[c].pc = "settled" /\ calls[c].aborted
    /\ calls[c].outcome.value.code = "TIMEOUT"
    /\ calls[d].pc = "settled" /\ ~calls[d].outcome.threw
    /\ calls[d].op = "createEmailJob"

\* ------------------------------------- the error factory called twice
\* fOut holds the results of the calls made so far, in order.
TwiceInit ==
  /\ fIn \in FactoryInputs
  /\ fOut = << >>
  /\ client = NoClient
  /\ ctorCall = NoCtorCall
  /\ calls = [c \in CallIds |-> IdleCall]

\* The factory with a call counter of module scope put into the default
\* message.
ClassifyAgain_CallCounter ==
  /\ Len(fOut) < 2
  /\ fOut' = Append(fOut,
                    createErrorFromResponse(fIn.statusCode, fIn.body,
                                            Str(fIn.defaultMessage.s \o DigitsOf(Len(fOut)))))
  /\ UNCHANGED <<fIn, client, ctorCall, calls>>

\* createErrorFromResponse is called with the arguments fIn, a first and
\* a second time.
ClassifyAgain ==
  /\ Len(fOut) < 2
  /\ fOut' = Append(fOut,
                    createErrorFromResponse(fIn.statusCode, fIn.body, fIn.defaultMessage))
  /\ UNCHANGED <<fIn, client, ctorCall, calls>>

SpecTwice == TwiceInit /\ [][ClassifyAgain]_vars

EndpointAnswered(c) ==
  /\ calls[c].op \in Operations
  /\ SettledOk(c)
  /\ calls[c].wire # Undefined

\* The body of call c as the transport decodes it for an endpoint method,
\* which gives no responseType.
DecodedBody(c) ==
  IF Includes(calls[c].head.contentType, CT_json)
  THEN JsonParse(calls[c].wire).value
  ELSE calls[c].wire

\* Every endpoint method but deleteBulkList returns the decoded body and
\* nothing of the envelope; getCredits on {"onDemand":{"available":42}}
\* returns an object whose onDemand.available is 42.
EndpointReturnsData ==
  \A c \in CallIds :
    ( /\ EndpointAnswered(c)
      /\ calls[c].op # "deleteBulkList"
      /\ ~JsonUnreadable(c) )
    => /\ calls[c].outcome = Return(DecodedBody(c))
       /\ ( /\ calls[c].op = "getCredits"
            /\ calls[c].wire = JsonText(CreditsBody)
            /\ Includes(calls[c].head.contentType, CT_json) )
          => calls[c].outcome.value.props.onDemand.props.available = Num(42)

\* deleteBulkList resolves with no value when the body can be decoded.
DeleteResolvesWhenDecodable ==
  \A c \in CallIds :
    ( /\ EndpointAnswered(c)
      /\ calls[c].op = "deleteBulkList"
      /\ ~JsonUnreadable(c) )
    => calls[c].outcome = Return(Undefined)

\* C25: on a 2xx response every endpoint method returns the decoded body
\* of the envelope unchanged, without status and headers, and
\* deleteBulkList resolves with no value whatever the response body is.
C25_EndpointReturnsBody ==
  /\ EndpointReturnsData
  /\ \A c \in CallIds :
       EndpointAnswered(c) /\ calls[c].op = "deleteBulkList"
         => calls[c].outcome = Return(Undefined)

\* C26: a call rejects with NETWORK_ERROR only when fetch was attempted
\* and failed before any response: never once a response with a status
\* has been received, and never when no fetch was made.
C26_NetworkErrorOnlyBeforeResponse ==
  \A c \in CallIds :
    RejectedWith(c, "NETWORK_ERROR") =>
      /\ calls[c].head = Undefined
      /\ calls[c].fetches = 1

\* The same, leaving out the two places where a TypeError of the library's
\* own making is taken for a network failure: an error body whose message
\* is no string, and a body that cannot be serialised.
NetworkErrorElsewhere ==
  \A c \in CallIds :
    ( /\ RejectedWith(c, "NETWORK_ERROR")
      /\ Buildable(c)
      /\ calls[c].wire = Undefined \/ ~JsonParse(calls[c].wire).ok
           \/ IsStr(GetProp(JsonParse(calls[c].wire).value, "message")) )
    => /\ calls[c].head = Undefined
       /\ calls[c].fetches = 1

\* One step as far as timers go: a timer is armed only by a call that
\* starts and has none, and a call that has settled has no timer armed:
\* its timer was never set, was cleared, or has fired.
TimerStep ==
  \A c \in CallIds :
    /\ calls'[c].timer = "armed" /\ calls[c].timer # "armed" =>
         /\ calls[c].pc = "idle"
         /\ calls[c].timer = "none"
         /\ calls'[c].pc = "awaitFetch"
    /\ calls'[c].pc = "settled" => calls'[c].timer \in {"none", "cleared", "fired"}
    /\ calls'[c].pc = "settled" /\ calls'[c].timer = "none" => calls'[c].fetches = 0

\* C27: each request arms at most one timer, and on every path by which
\* the call settles that timer has been cleared or has fired: no timer
\* is pending once the call has settled.
C27_NoTimerLeftPending == [][TimerStep]_vars

\* A call answered with a non-2xx response has settled with its timer
\* cleared.
C27_Witness ==
  \E c \in CallIds :
    /\ AnsweredNotOk(c)
    /\ calls[c].head.status = 429
    /\ calls[c].timer = "cleared"

\* The codes of the errors that arise on the client's side.
ClientSideCodes == {"NETWORK_ERROR", "TIMEOUT", "VALIDATION_ERROR", "PARSE_ERROR"}

\* The error e, raised while the response head `head` (or none) was at
\* hand, has no status exactly when it is client-side, else the status of
\* the response; the wrapping kinds carry their cause.
StatusAndCauseRule(e, head) ==
  /\ e.statusCode = Undefined <=> e.code \in ClientSideCodes
  /\ e.code \notin ClientSideCodes =>
       /\ head # Undefined
       /\ e.statusCode = Num(head.status)
  /\ e.code \in {"NETWORK_ERROR", "TIMEOUT", "PARSE_ERROR"} =>
       /\ e.cause # Undefined
       /\ InstanceOf(e.cause, "Error")
       /\ ~isEmailListVerifyError(e.cause)

\* C28: every error the library raises has no status exactly when it is
\* client-side (NETWORK_ERROR, TIMEOUT, VALIDATION_ERROR, PARSE_ERROR) and
\* otherwise the HTTP status of the response that caused it; NETWORK_ERROR,
\* TIMEOUT and PARSE_ERROR carry the error they wrap.
C28_StatusAbsentIffClientSide ==
  /\ \A c \in CallIds :
       Rejected(c) /\ isEmailListVerifyError(calls[c].outcome.value) =>
         StatusAndCauseRule(calls[c].outcome.value, calls[c].head)
  /\ ctorCall.outcome # Pending /\ ctorCall.outcome.threw =>
       StatusAndCauseRule(ctorCall.outcome.value, Undefined)

\* A fetch that failed was reported as NETWORK_ERROR with the TypeError as
\* cause.
C28_Witness ==
  \E c \in CallIds :
    /\ RejectedWith(c, "NETWORK_ERROR")
    /\ calls[c].fetches = 1
    /\ calls[c].head = Undefined
    /\ calls[c].outcome.value.cause = TypeErrorOf(M_fetchFailed)

\* The message field the description of the factory reads: that of an
\* object body, that of the JSON decoding of a string body; the raw string
\* when the body is a string that does not decode; nothing otherwise.
NamedMessage(body) ==
  IF body.t \in {"obj", "arr"} THEN GetProp(body, "message")
  ELSE IF body.t = "str"
  THEN IF JsonParse(body).ok THEN GetProp(JsonParse(body).value, "message") ELSE body
  ELSE Undefined

\* The message extracted: the named one, the fallback when it is missing
\* or empty.
ExpectedMessage(body, fallback) ==
  IF NamedMessage(body) \in {Undefined, Null, Str(<< >>)} THEN fallback.s
  ELSE NamedMessage(body).s

\* The factory has returned an error for a body whose message, if any, is
\* a string.
Extracted ==
  /\ fOut # Pending
  /\ ~fOut.threw
  /\ NamedMessage(fIn.body) \in {Undefined, Null} \/ IsCharStr(NamedMessage(fIn.body))

\* Whether the message m makes a heuristic of the status apply.
Triggers(status, m) ==
  CASE status = 400 -> ContainsIgnoringCase(m, S_file) \/ ContainsIgnoringCase(m, S_not_finished)
    [] status = 403 -> ContainsIgnoringCase(m, S_credit) \/ ContainsIgnoringCase(m, S_too_many)
    [] status = 404 -> \/ ContainsIgnoringCase(m, S_email_job)
                       \/ ContainsIgnoringCase(m, S_email_list)
                       \/ ContainsIgnoringCase(m, S_maillist)
                       \/ ContainsIgnoringCase(m, S_placement_test)
    [] OTHER -> FALSE

\* The variant of a status to which no heuristic applies.
PlainVariant(status) ==
  CASE status = 400 -> "BadRequestError"
    [] status = 401 -> "AuthenticationError"
    [] status = 403 -> "ForbiddenError"
    [] status = 404 -> "NotFoundError"
    [] status = 429 -> "RateLimitError"
    [] OTHER -> "EmailListVerifyError"

\* C29: the factory takes the message from the message field of an object
\* body, from the message field of the JSON decoding of a string body or,
\* when the string does not decode, from the string itself, and the
\* fallback message when that is missing or empty or the body is anything
\* else; the heuristics of 400, 403 and 404 look at that message only.
C29_MessageExtraction ==
  Extracted =>
    LET m == ExpectedMessage(fIn.body, fIn.defaultMessage)
    IN /\ fOut.value.name = PlainVariant(fIn.statusCode) <=> ~Triggers(fIn.statusCode, m)
       /\ fOut.value.name = PlainVariant(fIn.statusCode) => fOut.value.message = m

\* The same for every body but the JSON text null.
ExtractionButNull ==
  Extracted /\ fIn.body # Str(S_null) =>
    LET m == ExpectedMessage(fIn.body, fIn.defaultMessage)
    IN /\ fOut.value.name = PlainVariant(fIn.statusCode) <=> ~Triggers(fIn.statusCode, m)
       /\ fOut.value.name = PlainVariant(fIn.statusCode) => fOut.value.message = m

\* The timeout given for call c alone, if any.
PerCallTimeout(c) ==
  IF calls[c].op = "request" THEN calls[c].a1.timeout ELSE Undefined

\* The delay the timer of call c is due to be armed with: the per-call
\* timeout, else the one configured at construction, else 30 seconds.
TimeoutDue(c) ==
  IF PerCallTimeout(c) \notin {Undefined, Null} THEN PerCallTimeout(c)
  ELSE IF ctorCall.options.timeout \notin {Undefined, Null} THEN ctorCall.options.timeout
  ELSE Num(30000)

\* C30: the timer of a request is armed with the per-call timeout when
\* one is given, otherwise with the timeout configured at construction,
\* and with the default of 30 seconds only when none was configured.
C30_TimeoutPrecedence ==
  \A c \in CallIds :
    calls[c].timer # "none" => calls[c].timeout = TimeoutDue(c)

\* The same for the clients not configured with the timeout 0.
TimeoutPrecedenceButZero ==
  \A c \in CallIds :
    calls[c].timer # "none" /\ ctorCall.options.timeout # Num(0)
      => calls[c].timeout = TimeoutDue(c)

====
